---- MODULE Spec2Model ----
(***************************************************************************)
(* Model of the editor: the PDF text extraction (extractPdfToHtml and its  *)
(* helpers, src/src/components/editor/MenuBar.tsx lines 408-504) and the   *)
(* views around it: the worker configuration and the conversion of the PDF *)
(* view (pdf/page.tsx), the handoff to the Word view and its autosave      *)
(* (word/page.tsx, part_001), the ribbon (Ribbon.tsx), the PDF viewer with *)
(* its zoom and text fields (pdf/page.tsx), the spellcheck of the Word     *)
(* editor and its route handler, the table of contents, the numbered notes *)
(* and captions (part_001), the export (MenuBar.tsx, lib/exporters.ts) and *)
(* the tabs of Home (word/page.tsx).                                       *)
(*                                                                         *)
(* A JavaScript string is a sequence of one-character strings.  The        *)
(* literal pieces of the template strings the code emits are held as one   *)
(* element each, so that text coming from the PDF (always made of          *)
(* one-character elements) can be told from the markup of the templates.   *)
(* Coordinates of the text transform are real numbers in the code; the     *)
(* model holds y in quarters of a unit (y4 = 4 * y), which represents the  *)
(* values n, n + 0.25, n + 0.5 and n + 0.75 exactly, and x in units.       *)
(***************************************************************************)
EXTENDS Integers, Sequences, FiniteSets, TLC

VARIABLES
    hasWindow,    \* typeof window !== "undefined"
    dataUri,      \* the argument of extractPdfToHtml
    pc,           \* where the async function stands (its pending await)
    pdf,          \* the loaded document: one list of text items per page
    pageNumber,   \* the loop variable of the page loop
    textContent,  \* items of the page received last
    lines,        \* the Map of line groups of the page processed last
    sortedKeys,   \* the sorted line keys of the page processed last
    linesArray,   \* the paragraphs of the page processed last
    fragments,    \* the accumulated page fragments
    result,       \* the string the call resolved with
    error,        \* the error the call rejected with
    calls,        \* the library calls made so far, in order
    text,         \* input of the whitespace normalisation
    once,         \* normalizeWhitespace(text)
    twice         \* normalizeWhitespace(normalizeWhitespace(text))


extractVars == <<hasWindow, dataUri, pc, pdf, pageNumber, textContent, lines,
                 sortedKeys, linesArray, fragments, result, error, calls>>

textVars == <<text, once, twice>>

\* The views of the application around the extraction (pdf/page.tsx).
VARIABLES
    origin,       \* window.location.origin
    workerSrc,    \* pdfjs.GlobalWorkerOptions.workerSrc
    workerWrites, \* the assignments made to workerSrc, in order
    ensureCalls   \* calls of ensurePdfWorkerConfigured, per entry point

workerVars == <<origin, workerSrc, workerWrites, ensureCalls>>

\* The ribbon of the Word editor (Ribbon.tsx).
VARIABLES
    editorState,   \* what editor.isActive answers: marks, nodes and alignment
    handlers,      \* the editor events updateState is registered for
    activeState,   \* the state of the ribbon's buttons
    ribbonMounted, \* the Ribbon is mounted and its effect has run
    editorEvents   \* number of events the editor has emitted

ribbonVars == <<editorState, handlers, activeState, ribbonMounted, editorEvents>>

\* The autosaving Word editor (word/page.tsx lines 27-111).
VARIABLES
    draftStore,    \* the value idb-keyval holds under AUTOSAVE_KEY
    draftContent,  \* the document of the editor, as editor.getHTML() gives it
    idbQueue,      \* the get and set requests idb-keyval has not served yet
    draftEdits,    \* number of updates of the editor made by the user
    draftNotices   \* number of "Rascunho salvo" notices shown

draftVars == <<draftStore, draftContent, idbQueue, draftEdits, draftNotices>>

\* The handoff of a converted PDF from the PDF view to the Word view
\* (pdf/page.tsx, word/page.tsx and the Word editor with the import effect).
VARIABLES
    activeTab,     \* Home: the tab shown, whose view is the one mounted
    hash,          \* window.location.hash without its "#"
    hashChanged,   \* a hashchange event is waiting for its listener
    file,          \* PdfEditor: the data URL of the loaded PDF
    isConverting,  \* PdfEditor: a conversion is awaited
    inFlight,      \* the calls of extractPdfToHtml that have not settled
    conversions,   \* number of conversions started
    settled,       \* how the calls settled, in order: fulfilled or rejected
    importKey,     \* localStorage under IMPORT_STORAGE_KEY
    dispatched,    \* the conversions whose import event was dispatched
    wordEditor,    \* Word view: unmounted, loading (no editor yet) or ready
    wordContent,   \* the HTML the Word editor's content was set from
    applied,       \* the conversions whose HTML was set as the content
    notice         \* the toast shown last

handoffVars == <<activeTab, hash, hashChanged, file, isConverting, inFlight,
                 conversions, settled, importKey, dispatched, wordEditor,
                 wordContent, applied, notice>>

\* The PDF viewer with its zoom and its text fields (pdf/page.tsx lines
\* 81-230 and the TextFieldMarker of lines 457-576).  fileName,
\* pageAlignment and the position of a field are state no handler reads.
VARIABLES
    scale,           \* useState(1.2), a double
    viewerFile,      \* the state "file" as the viewer holds it
    fileReads,       \* the FileReaders that have not finished
    numPages,        \* useState(0)
    isEditingFields, \* useState(false)
    textFields,      \* useState<TextField[]>([])
    activeFieldId,   \* useState<string | null>(null)
    fieldsCreated,   \* number of calls of createFieldId
    viewerNotice     \* the toast shown last

viewerVars == <<scale, viewerFile, fileReads, numPages, isEditingFields,
                textFields, activeFieldId, fieldsCreated, viewerNotice>>

\* The spellcheck of the selection in the Word editor (part_001 lines
\* 324-363).  The document is its text; positions count characters.
VARIABLES
    spellDoc,        \* editor.state.doc, as text
    spellSelection,  \* editor.state.selection: from and to
    isSpellchecking, \* useState(false)
    spellRequest,    \* the fetch awaited, with the from, to and text it keeps
    spellApplied,    \* for each correction applied: text sent, text replaced
    spellEdits,      \* number of changes the user made to the document
    spellNotice      \* the toast shown last

spellVars == <<spellDoc, spellSelection, isSpellchecking, spellRequest,
               spellApplied, spellEdits, spellNotice>>

\* The route handler of the spellcheck (MenuBar.tsx lines 333-403).
VARIABLES
    postBody,     \* what request.json() gives for the request being handled
    postPc,       \* where the handler is: no request, or awaiting Ollama
    ollamaCalls,  \* number of calls of fetch to Ollama
    served        \* the requests answered: body, Ollama's answer, response

postVars == <<postBody, postPc, ollamaCalls, served>>

\* The table of contents of the Word editor (part_001 lines 197-246).
VARIABLES
    tocDoc,     \* editor.state.doc: its blocks in document order
    tocRuns,    \* number of calls of buildTableOfContents
    tocNotice   \* the toast shown last

tocVars == <<tocDoc, tocRuns, tocNotice>>

\* The numbered notes and captions of the Word editor (part_001 lines
\* 135-138, 188-195, 248-266 and 294-308).
VARIABLES
    footnoteCounter,  \* footnoteCounterRef.current
    endnoteCounter,   \* endnoteCounterRef.current
    figureCounter,    \* figureCounterRef.current
    tableCounter,     \* tableCounterRef.current
    refsDoc,          \* what the insertions put in the document, in its order
    refsLog           \* the insertions asked for, in the order of the calls

refsVars == <<footnoteCounter, endnoteCounter, figureCounter, tableCounter,
              refsDoc, refsLog>>

\* The export of the document (MenuBar.tsx lines 507-639 and
\* lib/exporters.ts lines 1-27).
VARIABLES
    exportPc,     \* where an export to PDF waits: idle, toPng, create,
                  \* embedPng or save
    exporting,    \* the format and container of the export under way
    savedFiles,   \* the files saveAs was called with, in order
    toPngCalls,   \* number of calls of toPng
    exportsDone   \* the exports finished: how, and what each saved

exportVars == <<exportPc, exporting, savedFiles, toPngCalls, exportsDone>>

viewVars == <<workerVars, ribbonVars, draftVars, handoffVars, viewerVars,
             spellVars,
             postVars,
             tocVars,
             refsVars,
             exportVars>>

vars == <<extractVars, textVars, viewVars>>

\* A step of one view leaves the other views as they are.
OtherViewsUnchanged(view) ==
    /\ view # "worker" => UNCHANGED workerVars
    /\ view # "ribbon" => UNCHANGED ribbonVars
    /\ view # "draft" => UNCHANGED draftVars
    /\ view # "handoff" => UNCHANGED handoffVars
    /\ view # "viewer" => UNCHANGED viewerVars
    /\ view # "spell" => UNCHANGED spellVars
    /\ view # "post" => UNCHANGED postVars
    /\ view # "toc" => UNCHANGED tocVars
    /\ view # "refs" => UNCHANGED refsVars
    /\ view # "export" => UNCHANGED exportVars

\* The views before anything happened in them.
WorkerIdle ==
    /\ origin = "http://localhost:3000"
    /\ workerSrc = ""
    /\ workerWrites = <<>>
    /\ ensureCalls = [Document |-> 0, Page |-> 0]

\* useState of activeState
NoneActive ==
    [bold |-> FALSE, italic |-> FALSE, underline |-> FALSE, strike |-> FALSE,
     bulletList |-> FALSE, orderedList |-> FALSE, alignLeft |-> FALSE,
     alignCenter |-> FALSE, alignRight |-> FALSE, alignJustify |-> FALSE,
     blockquote |-> FALSE, link |-> FALSE, table |-> FALSE]

\* A new document: a plain paragraph, aligned left.
NewEditorState == [active |-> {}, textAlign |-> "left"]

RibbonIdle ==
    /\ editorState = NewEditorState
    /\ handlers = {}
    /\ activeState = NoneActive
    /\ ribbonMounted = FALSE
    /\ editorEvents = 0

\* Nothing stored, and the editor of useEditor not created yet.
NoDraft == <<"(undefined)">>

NoEditor == <<"(null)">>

DraftIdle ==
    /\ draftStore = NoDraft
    /\ draftContent = NoEditor
    /\ idbQueue = <<>>
    /\ draftEdits = 0
    /\ draftNotices = 0

\* localStorage.getItem answering null, useState<string | null>(null)
NoItem == [html |-> <<>>, id |-> 0]

NoFile == <<"(null)">>

NoNotice == "(none)"

\* Home at its first render, the Word view mounted without its editor.
HandoffIdle ==
    /\ activeTab = "word"
    /\ hash = ""
    /\ hashChanged = FALSE
    /\ file = NoFile
    /\ isConverting = FALSE
    /\ inFlight = {}
    /\ conversions = 0
    /\ settled = <<>>
    /\ importKey = NoItem
    /\ dispatched = <<>>
    /\ wordEditor = "loading"
    /\ wordContent = NoEditor
    /\ applied = <<>>
    /\ notice = NoNotice

\* A double between 1/4 and 4, exactly: hi * 2^28 + lo in units of 2^-55,
\* the unit in which 0.1 and every double from 1/4 up are whole numbers.
Limb == 2^28

Double(hi, lo) == [hi |-> hi, lo |-> lo]

\* The literals of the viewer as the doubles they denote.
InitialScale == Double(161061273, 161061272)

Tenth == Double(13421772, 214748365)

MinScale == Double(80530636, 214748364)

MaxScale == Double(268435456, 0)

NoFieldId == "(null)"

\* PdfEditor at its first render.
ViewerIdle ==
    /\ scale = InitialScale
    /\ viewerFile = NoFile
    /\ fileReads = {}
    /\ numPages = 0
    /\ isEditingFields = FALSE
    /\ textFields = <<>>
    /\ activeFieldId = NoFieldId
    /\ fieldsCreated = 0
    /\ viewerNotice = NoNotice

NoRequest == [from |-> 0, to |-> 0, text |-> <<>>]

\* WordEditor with its editor ready, nothing selected.
SpellIdle ==
    /\ spellDoc = <<"a", "b">>
    /\ spellSelection = [from |-> 0, to |-> 0]
    /\ isSpellchecking = FALSE
    /\ spellRequest = NoRequest
    /\ spellApplied = <<>>
    /\ spellEdits = 0
    /\ spellNotice = NoNotice

\* No request is being handled.
NoBody == [json |-> "(none)", type |-> "undefined", str |-> <<>>]

PostIdle ==
    /\ postBody = NoBody
    /\ postPc = "idle"
    /\ ollamaCalls = 0
    /\ served = <<>>

Heading(level, t) ==
    [kind |-> "heading", level |-> level, text |-> t, items |-> <<>>]

Paragraph(t) ==
    [kind |-> "paragraph", level |-> 0, text |-> t, items |-> <<>>]

BulletList(items) ==
    [kind |-> "bulletList", level |-> 0, text |-> "", items |-> items]

\* The document of starterContent.
TocIdle ==
    /\ tocDoc = <<Heading(1, "Documento em branco"), Paragraph("Comece")>>
    /\ tocRuns = 0
    /\ tocNotice = NoNotice

\* useRef(1) four times, and nothing inserted yet.
RefsIdle ==
    /\ footnoteCounter = 1
    /\ endnoteCounter = 1
    /\ figureCounter = 1
    /\ tableCounter = 1
    /\ refsDoc = <<>>
    /\ refsLog = <<>>

NoExport == [format |-> "(none)", container |-> FALSE]

ExportIdle ==
    /\ exportPc = "idle"
    /\ exporting = NoExport
    /\ savedFiles = <<>>
    /\ toPngCalls = 0
    /\ exportsDone = <<>>

ViewsIdle ==
    WorkerIdle /\ RibbonIdle /\ DraftIdle /\ HandoffIdle /\ ViewerIdle
        /\ SpellIdle
    /\ PostIdle
    /\ TocIdle
    /\ RefsIdle
    /\ ExportIdle
        /\ PostIdle
    /\ TocIdle
    /\ RefsIdle
    /\ ExportIdle
        /\ TocIdle
    /\ RefsIdle
    /\ ExportIdle
        /\ RefsIdle
    /\ ExportIdle
        /\ ExportIdle

(***************************************************************************)
(* Bounds of the model.                                                    *)
(***************************************************************************)
MaxPages == 2

MaxItems == 2

MaxLen == 4

(***************************************************************************)
(* Strings.                                                                *)
(***************************************************************************)
\* The characters the model uses of those matched by \s and removed by trim().
Whitespace == {" ", "\t", "\n"}

RECURSIVE SkipWhitespace(_)
SkipWhitespace(s) ==
    IF s # <<>> /\ Head(s) \in Whitespace THEN SkipWhitespace(Tail(s)) ELSE s

\* text.replace(/\s+/g, " "): every maximal run of whitespace becomes one space.
RECURSIVE ReplaceWhitespaceRuns(_)
ReplaceWhitespaceRuns(s) ==
    IF s = <<>> THEN <<>>
    ELSE IF Head(s) \in Whitespace
         THEN <<" ">> \o ReplaceWhitespaceRuns(SkipWhitespace(Tail(s)))
         ELSE <<Head(s)>> \o ReplaceWhitespaceRuns(Tail(s))

\* A plausible slip: /\s/g instead of /\s+/g, one space per whitespace character.
RECURSIVE ReplaceWhitespaceChars(_)
ReplaceWhitespaceChars(s) ==
    IF s = <<>> THEN <<>>
    ELSE <<IF Head(s) \in Whitespace THEN " " ELSE Head(s)>>
         \o ReplaceWhitespaceChars(Tail(s))

RECURSIVE TrimEnd(_)
TrimEnd(s) ==
    IF s # <<>> /\ s[Len(s)] \in Whitespace THEN TrimEnd(SubSeq(s, 1, Len(s) - 1))
    ELSE s

\* String.prototype.trim
Trim(s) == TrimEnd(SkipWhitespace(s))

normalizeWhitespaceNoCollapse(s) == Trim(ReplaceWhitespaceChars(s))

\* A plausible slip: the trim is forgotten.
normalizeWhitespaceNoTrim(s) == ReplaceWhitespaceRuns(s)

normalizeWhitespace(s) == Trim(ReplaceWhitespaceRuns(s))

\* value.replace(/c/g, replacement) for a one-character pattern c.
RECURSIVE ReplaceAll(_, _, _)
ReplaceAll(s, c, replacement) ==
    IF s = <<>> THEN <<>>
    ELSE (IF Head(s) = c THEN replacement ELSE <<Head(s)>>)
         \o ReplaceAll(Tail(s), c, replacement)

Amp == <<"&", "a", "m", "p", ";">>
Lt == <<"&", "l", "t", ";">>
Gt == <<"&", "g", "t", ";">>
Quot == <<"&", "q", "u", "o", "t", ";">>
Apos == <<"&", "#", "3", "9", ";">>

\* A plausible slip: the ampersand replaced last, which escapes the entities again.
escapeHtmlAmpLast(value) ==
    ReplaceAll(ReplaceAll(ReplaceAll(ReplaceAll(ReplaceAll(value,
        "<", Lt), ">", Gt), "\"", Quot), "'", Apos), "&", Amp)

escapeHtml(value) ==
    ReplaceAll(ReplaceAll(ReplaceAll(ReplaceAll(ReplaceAll(value,
        "&", Amp), "<", Lt), ">", Gt), "\"", Quot), "'", Apos)

\* dataUri.startsWith(prefix)
StartsWith(s, prefix) ==
    Len(s) >= Len(prefix) /\ SubSeq(s, 1, Len(prefix)) = prefix

\* strings.join(separator)
RECURSIVE Join(_, _)
Join(strings, separator) ==
    IF strings = <<>> THEN <<>>
    ELSE IF Len(strings) = 1 THEN strings[1]
    ELSE strings[1] \o separator \o Join(Tail(strings), separator)

(***************************************************************************)
(* One iteration of the page loop: from the items of a page to its         *)
(* fragment.                                                               *)
(***************************************************************************)
\* Math.round of y4 / 4: floor(y + 0.5), so a tie goes toward +infinity.
MathRoundHalfAwayFromZero(y4) ==
    IF y4 >= 0 THEN (y4 + 2) \div 4 ELSE -((-y4 + 2) \div 4)

MathRound(y4) == (y4 + 2) \div 4

\* transform[4] ?? 0 and transform[5] ?? 0, or 0 without a transform array
ItemX(rawItem) == IF rawItem.hasTransform THEN rawItem.x ELSE 0

ItemY4(rawItem) == IF rawItem.hasTransform THEN rawItem.y4 ELSE 0

\* The Map of the code is a sequence of entries [key, segs] in insertion order.
MapHas(map, key) == \E i \in 1..Len(map) : map[i].key = key

MapGet(map, key) == map[CHOOSE i \in 1..Len(map) : map[i].key = key].segs

MapKeys(map) == [i \in 1..Len(map) |-> map[i].key]

\* if (!lines.has(key)) lines.set(key, []); lines.get(key).push(segment)
MapPush(map, key, segment) ==
    IF MapHas(map, key)
    THEN [i \in 1..Len(map) |->
            IF map[i].key = key
            THEN [key |-> key, segs |-> Append(map[i].segs, segment)]
            ELSE map[i]]
    ELSE Append(map, [key |-> key, segs |-> <<segment>>])

\* A plausible slip: the raw y as the key of a line, without rounding.
LineKeyRaw(rawItem) == ItemY4(rawItem)

LineKey(rawItem) == MathRound(ItemY4(rawItem))

\* "str" in rawItem, and the normalized text is not empty
KeepsItem(rawItem) == rawItem.hasStr /\ normalizeWhitespace(rawItem.str) # <<>>

\* The for loop over textContent.items: segment idx remembers which item a
\* segment came from (the code does not hold it; nothing below reads it).
RECURSIVE CollectLines(_, _, _)
CollectLines(items, i, map) ==
    IF i > Len(items) THEN map
    ELSE LET rawItem == items[i]
         IN  IF ~KeepsItem(rawItem) THEN CollectLines(items, i + 1, map)
             ELSE CollectLines(items, i + 1,
                    MapPush(map, LineKey(rawItem),
                        [x    |-> ItemX(rawItem),
                         text |-> escapeHtml(normalizeWhitespace(rawItem.str)),
                         idx  |-> i]))

\* Array.prototype.sort is a stable sort: an element goes behind every element
\* the comparator does not put after it.
RECURSIVE InsertKeyDesc(_, _)
InsertKeyDesc(sorted, key) ==
    IF sorted = <<>> THEN <<key>>
    ELSE IF key - Head(sorted) <= 0
         THEN <<Head(sorted)>> \o InsertKeyDesc(Tail(sorted), key)
         ELSE <<key>> \o sorted

RECURSIVE InsertKeyAsc(_, _)
InsertKeyAsc(sorted, key) ==
    IF sorted = <<>> THEN <<key>>
    ELSE IF Head(sorted) - key <= 0
         THEN <<Head(sorted)>> \o InsertKeyAsc(Tail(sorted), key)
         ELSE <<key>> \o sorted

RECURSIVE SortKeysWith(_, _)
SortKeysWith(keys, descending) ==
    IF keys = <<>> THEN <<>>
    ELSE LET rest == SortKeysWith(SubSeq(keys, 1, Len(keys) - 1), descending)
         IN  IF descending THEN InsertKeyDesc(rest, keys[Len(keys)])
             ELSE InsertKeyAsc(rest, keys[Len(keys)])

\* A plausible slip: the comparator a - b.
SortKeysAsc(keys) == SortKeysWith(keys, FALSE)

\* Array.from(lines.keys()).sort((a, b) => b - a)
SortKeysDesc(keys) == SortKeysWith(keys, TRUE)

\* A plausible slip: an unstable sort, which puts an element before its equals.
RECURSIVE InsertByXUnstable(_, _)
InsertByXUnstable(sorted, segment) ==
    IF sorted = <<>> THEN <<segment>>
    ELSE IF Head(sorted).x - segment.x < 0
         THEN <<Head(sorted)>> \o InsertByXUnstable(Tail(sorted), segment)
         ELSE <<segment>> \o sorted

\* A plausible slip: the comparator b.x - a.x.
RECURSIVE InsertByXDesc(_, _)
InsertByXDesc(sorted, segment) ==
    IF sorted = <<>> THEN <<segment>>
    ELSE IF segment.x - Head(sorted).x <= 0
         THEN <<Head(sorted)>> \o InsertByXDesc(Tail(sorted), segment)
         ELSE <<segment>> \o sorted

RECURSIVE InsertByX(_, _)
InsertByX(sorted, segment) ==
    IF sorted = <<>> THEN <<segment>>
    ELSE IF Head(sorted).x - segment.x <= 0
         THEN <<Head(sorted)>> \o InsertByX(Tail(sorted), segment)
         ELSE <<segment>> \o sorted

RECURSIVE SortByXWith(_, _)
SortByXWith(segs, variant) ==
    IF segs = <<>> THEN <<>>
    ELSE LET rest == SortByXWith(SubSeq(segs, 1, Len(segs) - 1), variant)
             last == segs[Len(segs)]
         IN  CASE variant = "stable"   -> InsertByX(rest, last)
               [] variant = "unstable" -> InsertByXUnstable(rest, last)
               [] variant = "desc"     -> InsertByXDesc(rest, last)

SortByXUnstable(segs) == SortByXWith(segs, "unstable")

SortByXDesc(segs) == SortByXWith(segs, "desc")

\* segs.sort((a, b) => a.x - b.x)
SortByX(segs) == SortByXWith(segs, "stable")

\* The sort is in place: after the map over sortedKeys every entry of the Map
\* holds its segments in sorted order (every key of the Map is in sortedKeys).
SortedLines(map) ==
    [i \in 1..Len(map) |-> [key |-> map[i].key, segs |-> SortByX(map[i].segs)]]

\* normalizeWhitespace(segments.map(segment => segment.text).join(" "))
LineText(segs) ==
    normalizeWhitespace(Join([i \in 1..Len(segs) |-> segs[i].text], <<" ">>))

\* .filter(Boolean): the empty string is the only falsy string
RECURSIVE FilterBoolean(_)
FilterBoolean(strings) ==
    IF strings = <<>> THEN <<>>
    ELSE (IF Head(strings) = <<>> THEN <<>> ELSE <<Head(strings)>>)
         \o FilterBoolean(Tail(strings))

\* sortedKeys.map(key => ...).filter(Boolean)
LinesArray(map, keys) ==
    FilterBoolean([k \in 1..Len(keys) |-> LineText(SortByX(MapGet(map, keys[k])))])

SectionOpen(n) == <<"<section data-page=\"", ToString(n), "\">\n  <p>">>

SectionClose == <<"</p>\n</section>">>

Placeholder(n) ==
    <<"<em>Página ", ToString(n), ": sem conteúdo textual legível.</em>">>

\* A plausible slip: the branch for a page without lines is missing.
PageFragmentNoPlaceholder(n, paragraphs) ==
    SectionOpen(n) \o Join(paragraphs, <<"</p>\n  <p>">>) \o SectionClose

\* The two fragments.push of the loop body
PageFragment(n, paragraphs) ==
    IF paragraphs = <<>>
    THEN SectionOpen(n) \o Placeholder(n) \o SectionClose
    ELSE SectionOpen(n) \o Join(paragraphs, <<"</p>\n  <p>">>) \o SectionClose

Fallback ==
    <<"<p>Não foi possível extrair texto deste PDF. Tente novamente com um arquivo que contenha texto pesquisável.</p>">>

ArticleOpen == <<"<article class=\"almeida-pdf-import\" data-origin=\"pdf\">\n">>

ArticleClose == <<"\n</article>">>

\* A plausible slip: the fallback notice is never added.
FinalFragmentsNoFallback(frags) == frags

\* if (!fragments.length) fragments.push(fallback)
FinalFragments(frags) == IF frags = <<>> THEN <<Fallback>> ELSE frags

\* The returned template string
Article(frags) == ArticleOpen \o Join(frags, <<"\n">>) \o ArticleClose

(***************************************************************************)
(* Inputs.                                                                 *)
(***************************************************************************)
SeqsUpTo(S, n) == UNION {[1..k -> S] : k \in 0..n}

Run(str, x, y4) ==
    [hasStr |-> TRUE, str |-> str, hasTransform |-> TRUE, x |-> x, y4 |-> y4]

\* An item without str (marked content) and a text item without a transform.
MarkedContent ==
    [hasStr |-> FALSE, str |-> <<>>, hasTransform |-> FALSE, x |-> 0, y4 |-> 0]

RunNoTransform ==
    [hasStr |-> TRUE, str |-> <<"A">>, hasTransform |-> FALSE, x |-> 0, y4 |-> 0]

Special == <<"<", "b", ">", " ", "\t", "&", "\"", "'">>

RunTexts == {<<"A">>, <<"B">>}

\* y = -2, -1.5, -1 and 1.5
RunYs == {-8, -6, -4, 6}

RunXs == {0, 10}

RichItems ==
    {Run(t, x, y4) : t \in RunTexts, x \in RunXs, y4 \in RunYs}
        \cup {Run(Special, x, -8) : x \in RunXs}
        \cup {Run(<<" ", "\t">>, 0, -8), MarkedContent, RunNoTransform}

SimpleItems == {Run(<<" ">>, 0, 8), Run(<<"A">>, 0, 8)}

\* Documents of several pages with few kinds of items, and documents of one
\* page with many.
Documents == SeqsUpTo(SeqsUpTo(SimpleItems, MaxItems), MaxPages)

SinglePageDocuments == {<<p>> : p \in SeqsUpTo(RichItems, MaxItems)}

DataPrefix == <<"d", "a", "t", "a", ":">>

DataUris ==
    {DataPrefix \o <<"J">>, <<"b", "l", "o", "b", ":", "J">>, <<"d", "a", "t", "a">>, <<>>}

WindowError == "Extração de PDF disponível apenas no ambiente do navegador."

DataUrlError == "Somente data URLs são suportadas no momento."

LibraryErrors == {"InvalidPDFException", "UnknownErrorException"}

NoError == "(none)"

Call(fn, page) == [fn |-> fn, page |-> page]

(***************************************************************************)
(* extractPdfToHtml: one action per stretch of code between two awaits.    *)
(***************************************************************************)
Reject(e) ==
    /\ pc' = "rejected"
    /\ error' = e
    /\ UNCHANGED <<pdf, pageNumber, textContent, lines, sortedKeys, linesArray,
                   fragments, result, calls>>

\* The head of the page loop and what follows the loop.
LoopOrReturn(doc, pn, frags) ==
    /\ pageNumber' = pn
    /\ error' = error
    /\ IF pn <= Len(doc)
       THEN /\ pc' = "getPage"
            /\ calls' = Append(calls, Call("getPage", pn))
            /\ fragments' = frags
            /\ result' = result
       ELSE /\ pc' = "done"
            /\ calls' = calls
            /\ fragments' = FinalFragments(frags)
            /\ result' = Article(FinalFragments(frags))

\* A plausible slip: the library is loaded before the environment is checked.
StartNoWindowCheck ==
    /\ pc = "start"
    /\ pc' = "import"
    /\ calls' = Append(calls, Call("import", 0))
    /\ UNCHANGED <<pdf, pageNumber, textContent, lines, sortedKeys,
                   linesArray, fragments, result, error>>
    /\ UNCHANGED <<hasWindow, dataUri, textVars, viewVars>>

Start ==
    /\ pc = "start"
    /\ IF ~hasWindow
       THEN Reject(WindowError)
       ELSE /\ pc' = "import"
            /\ calls' = Append(calls, Call("import", 0))
            /\ UNCHANGED <<pdf, pageNumber, textContent, lines, sortedKeys,
                           linesArray, fragments, result, error>>
    /\ UNCHANGED <<hasWindow, dataUri, textVars, viewVars>>

\* A plausible slip: the argument is not validated.
ImportResolvedNoCheck ==
    /\ pc = "import"
    /\ pc' = "getDocument"
    /\ calls' = calls \o <<Call("dataUriToUint8Array", 0), Call("getDocument", 0)>>
    /\ UNCHANGED <<pdf, pageNumber, textContent, lines, sortedKeys,
                   linesArray, fragments, result, error>>
    /\ UNCHANGED <<hasWindow, dataUri, textVars, viewVars>>

ImportResolved ==
    /\ pc = "import"
    /\ IF ~StartsWith(dataUri, DataPrefix)
       THEN Reject(DataUrlError)
       ELSE /\ pc' = "getDocument"
            /\ calls' = calls \o <<Call("dataUriToUint8Array", 0),
                                    Call("getDocument", 0)>>
            /\ UNCHANGED <<pdf, pageNumber, textContent, lines, sortedKeys,
                           linesArray, fragments, result, error>>
    /\ UNCHANGED <<hasWindow, dataUri, textVars, viewVars>>

GetDocumentResolved(docs) ==
    /\ pc = "getDocument"
    /\ \E doc \in docs :
          /\ pdf' = doc
          /\ LoopOrReturn(doc, 1, <<>>)
    /\ UNCHANGED <<hasWindow, dataUri, textContent, lines, sortedKeys, linesArray,
                   textVars, viewVars>>

GetDocumentRejected ==
    /\ pc = "getDocument"
    /\ \E e \in LibraryErrors : Reject(e)
    /\ UNCHANGED <<hasWindow, dataUri, textVars, viewVars>>

\* A plausible slip: the next page is requested while this one is still read.
GetPageResolvedPrefetch ==
    /\ pc = "getPage"
    /\ pc' = "getTextContent"
    /\ calls' = calls \o <<Call("getTextContent", pageNumber),
                            Call("getPage", pageNumber + 1)>>
    /\ UNCHANGED <<hasWindow, dataUri, pdf, pageNumber, textContent, lines,
                   sortedKeys, linesArray, fragments, result, error, textVars, viewVars>>

GetPageResolved ==
    /\ pc = "getPage"
    /\ pc' = "getTextContent"
    /\ calls' = Append(calls, Call("getTextContent", pageNumber))
    /\ UNCHANGED <<hasWindow, dataUri, pdf, pageNumber, textContent, lines,
                   sortedKeys, linesArray, fragments, result, error, textVars, viewVars>>

GetPageRejected ==
    /\ pc = "getPage"
    /\ \E e \in LibraryErrors : Reject(e)
    /\ UNCHANGED <<hasWindow, dataUri, textVars, viewVars>>

\* A plausible slip: the Map of lines is kept from one page to the next.
GetTextContentResolvedSharedMap ==
    /\ pc = "getTextContent"
    /\ LET items == pdf[pageNumber]
           map == CollectLines(items, 1, lines)
           keys == SortKeysDesc(MapKeys(map))
           paragraphs == LinesArray(map, keys)
       IN  /\ textContent' = items
           /\ lines' = SortedLines(map)
           /\ sortedKeys' = keys
           /\ linesArray' = paragraphs
           /\ LoopOrReturn(pdf, pageNumber + 1,
                           Append(fragments, PageFragment(pageNumber, paragraphs)))
    /\ UNCHANGED <<hasWindow, dataUri, pdf, textVars, viewVars>>

GetTextContentResolved ==
    /\ pc = "getTextContent"
    /\ LET items == pdf[pageNumber]
           map == CollectLines(items, 1, <<>>)
           keys == SortKeysDesc(MapKeys(map))
           paragraphs == LinesArray(map, keys)
       IN  /\ textContent' = items
           /\ lines' = SortedLines(map)
           /\ sortedKeys' = keys
           /\ linesArray' = paragraphs
           /\ LoopOrReturn(pdf, pageNumber + 1,
                           Append(fragments, PageFragment(pageNumber, paragraphs)))
    /\ UNCHANGED <<hasWindow, dataUri, pdf, textVars, viewVars>>

\* A plausible slip: a failing page ends the loop and what was read so far
\* is returned.
GetTextContentRejectedPartial ==
    /\ pc = "getTextContent"
    /\ pc' = "done"
    /\ fragments' = FinalFragments(fragments)
    /\ result' = Article(FinalFragments(fragments))
    /\ UNCHANGED <<pdf, pageNumber, textContent, lines, sortedKeys, linesArray,
                   error, calls>>
    /\ UNCHANGED <<hasWindow, dataUri, textVars, viewVars>>

GetTextContentRejected ==
    /\ pc = "getTextContent"
    /\ \E e \in LibraryErrors : Reject(e)
    /\ UNCHANGED <<hasWindow, dataUri, textVars, viewVars>>

(***************************************************************************)
(* normalizeWhitespace applied to a string, and to its own result.         *)
(***************************************************************************)
TextChars == {" ", "\t", "\n", "a", "b"}

NotYet == <<"(not yet)">>

NormalizeOnce ==
    /\ once = NotYet
    /\ once' = normalizeWhitespace(text)
    /\ UNCHANGED <<text, twice, extractVars, viewVars>>

NormalizeTwice ==
    /\ once # NotYet
    /\ twice = NotYet
    /\ twice' = normalizeWhitespace(once)
    /\ UNCHANGED <<text, once, extractVars, viewVars>>

(***************************************************************************)
(* Specifications.                                                         *)
(***************************************************************************)
InitExtract ==
    /\ pc = "start"
    /\ pdf = <<>>
    /\ pageNumber = 1
    /\ textContent = <<>>
    /\ lines = <<>>
    /\ sortedKeys = <<>>
    /\ linesArray = <<>>
    /\ fragments = <<>>
    /\ result = <<>>
    /\ error = NoError
    /\ calls = <<>>

InitText ==
    /\ once = NotYet
    /\ twice = NotYet

Init ==
    /\ hasWindow \in BOOLEAN
    /\ dataUri \in DataUris
    /\ InitExtract
    /\ text = <<>>
    /\ InitText
    /\ ViewsIdle

Extract(docs) ==
    \/ Start
    \/ ImportResolved
    \/ GetDocumentResolved(docs)
    \/ GetDocumentRejected
    \/ GetPageResolved
    \/ GetPageRejected
    \/ GetTextContentResolved
    \/ GetTextContentRejected

\* Documents of up to MaxPages pages.
Next == Extract(Documents)

Spec == Init /\ [][Next]_vars

\* Documents of one page, with every kind of item.
NextPage == Extract(SinglePageDocuments)

SpecPage == Init /\ [][NextPage]_vars

\* The whitespace normalisation on every string of up to MaxLen characters.
InitNormalize ==
    /\ hasWindow = TRUE
    /\ dataUri = DataPrefix
    /\ InitExtract
    /\ text \in SeqsUpTo(TextChars, MaxLen)
    /\ InitText
    /\ ViewsIdle

NextNormalize == NormalizeOnce \/ NormalizeTwice

SpecNormalize == InitNormalize /\ [][NextNormalize]_vars

(***************************************************************************)
(* The PDF worker configuration (pdf/page.tsx lines 31-74): the loaders of *)
(* Document and Page both call ensurePdfWorkerConfigured.                  *)
(***************************************************************************)
MaxCalls == 3

PDF_WORKER_SRC == "/pdf.worker.mjs"

\* new URL(PDF_WORKER_SRC, window.location.origin).toString()
ResolvedSrc == origin \o PDF_WORKER_SRC

Origins == {"http://localhost:3000", "https://editor.test"}

\* What pdfjs holds before the application sets anything: nothing, or the
\* relative name the library starts with.
DefaultWorkerSrcs == {"", "pdf.worker.mjs"}

\* A plausible slip: the assignment is not guarded by the comparison.
ensurePdfWorkerConfiguredAlways ==
    IF ~hasWindow
    THEN UNCHANGED <<workerSrc, workerWrites>>
    ELSE /\ workerSrc' = ResolvedSrc
         /\ workerWrites' = Append(workerWrites, [old |-> workerSrc, new |-> ResolvedSrc])

ensurePdfWorkerConfigured ==
    IF ~hasWindow
    THEN UNCHANGED <<workerSrc, workerWrites>>
    ELSE IF workerSrc # ResolvedSrc
         THEN /\ workerSrc' = ResolvedSrc
              /\ workerWrites' = Append(workerWrites,
                                        [old |-> workerSrc, new |-> ResolvedSrc])
         ELSE UNCHANGED <<workerSrc, workerWrites>>

\* The loader of a dynamic component runs: Document or Page.
Load(entry) ==
    /\ ensureCalls[entry] < MaxCalls
    /\ ensureCalls' = [ensureCalls EXCEPT ![entry] = @ + 1]
    /\ ensurePdfWorkerConfigured
    /\ UNCHANGED <<origin, extractVars, textVars>>
    /\ OtherViewsUnchanged("worker")

LoadDocument == Load("Document")

LoadPage == Load("Page")

InitWorker ==
    /\ hasWindow \in BOOLEAN
    /\ dataUri = DataPrefix
    /\ InitExtract
    /\ text = <<>>
    /\ InitText
    /\ origin \in Origins
    /\ workerSrc \in DefaultWorkerSrcs
    /\ workerWrites = <<>>
    /\ ensureCalls = [Document |-> 0, Page |-> 0]
    /\ RibbonIdle
    /\ DraftIdle
    /\ HandoffIdle
    /\ ViewerIdle
    /\ SpellIdle
    /\ PostIdle
    /\ TocIdle
    /\ RefsIdle
    /\ ExportIdle

NextWorker == LoadDocument \/ LoadPage

SpecWorker == InitWorker /\ [][NextWorker]_vars

(***************************************************************************)
(* The ribbon (Ribbon.tsx lines 88-147): its effect copies what the editor *)
(* answers to isActive into activeState, at mount and on four events of    *)
(* the editor.  The Ribbon is rendered once the editor exists.             *)
(***************************************************************************)
MaxEvents == 3

\* The names isActive is asked for, and the values of textAlign.
Formats == {"bold", "italic", "underline", "strike", "bulletList",
            "orderedList", "blockquote", "link", "table"}

Alignments == {"left", "center", "right", "justify"}

\* No alignment: the selection is in a node without the attribute.
NoAlignment == "(none)"

EditorEvents == {"transaction", "selectionUpdate", "focus", "blur"}

\* editor.isActive(name) and editor.isActive({ textAlign: value })
isActive(state, name) == name \in state.active

isActiveAlign(state, value) == state.textAlign = value

\* A plausible slip: a flag copied from the line above reads the wrong value.
updateStateCopied(state) ==
    [bold |-> isActive(state, "bold"),
     italic |-> isActive(state, "italic"),
     underline |-> isActive(state, "underline"),
     strike |-> isActive(state, "strike"),
     bulletList |-> isActive(state, "bulletList"),
     orderedList |-> isActive(state, "orderedList"),
     alignLeft |-> isActiveAlign(state, "left"),
     alignCenter |-> isActiveAlign(state, "center"),
     alignRight |-> isActiveAlign(state, "right"),
     alignJustify |-> isActiveAlign(state, "right"),
     blockquote |-> isActive(state, "blockquote"),
     link |-> isActive(state, "link"),
     table |-> isActive(state, "table")]

\* The argument of setActiveState in updateState
updateState(state) ==
    [bold |-> isActive(state, "bold"),
     italic |-> isActive(state, "italic"),
     underline |-> isActive(state, "underline"),
     strike |-> isActive(state, "strike"),
     bulletList |-> isActive(state, "bulletList"),
     orderedList |-> isActive(state, "orderedList"),
     alignLeft |-> isActiveAlign(state, "left"),
     alignCenter |-> isActiveAlign(state, "center"),
     alignRight |-> isActiveAlign(state, "right"),
     alignJustify |-> isActiveAlign(state, "justify"),
     blockquote |-> isActive(state, "blockquote"),
     link |-> isActive(state, "link"),
     table |-> isActive(state, "table")]

\* What a transaction can make of the editor's state: one format toggled,
\* or another alignment, or the same state (focus, blur, typing).
Toggled(state, name) ==
    [state EXCEPT !.active = IF name \in @ THEN @ \ {name} ELSE @ \cup {name}]

NextEditorStates(state) ==
    {state}
        \cup {Toggled(state, name) : name \in Formats}
        \cup {[state EXCEPT !.textAlign = a] : a \in Alignments \cup {NoAlignment}}

\* The effect of the Ribbon: updateState() and the four editor.on
MountRibbon ==
    /\ ~ribbonMounted
    /\ ribbonMounted' = TRUE
    /\ activeState' = updateState(editorState)
    /\ handlers' = EditorEvents
    /\ UNCHANGED <<editorState, editorEvents, extractVars, textVars>>
    /\ OtherViewsUnchanged("ribbon")

\* The cleanup of the effect: the four editor.off
UnmountRibbon ==
    /\ ribbonMounted
    /\ ribbonMounted' = FALSE
    /\ handlers' = {}
    /\ UNCHANGED <<activeState, editorState, editorEvents, extractVars, textVars>>
    /\ OtherViewsUnchanged("ribbon")

\* The editor changes its state and emits an event; updateState runs when
\* it is registered for the event.
EditorEvent(kind) ==
    /\ editorEvents < MaxEvents
    /\ editorEvents' = editorEvents + 1
    /\ \E state \in NextEditorStates(editorState) :
          /\ editorState' = state
          /\ activeState' = IF kind \in handlers THEN updateState(state)
                            ELSE activeState
    /\ UNCHANGED <<handlers, ribbonMounted, extractVars, textVars>>
    /\ OtherViewsUnchanged("ribbon")

InitRibbon ==
    /\ hasWindow = TRUE
    /\ dataUri = DataPrefix
    /\ InitExtract
    /\ text = <<>>
    /\ InitText
    /\ WorkerIdle
    /\ RibbonIdle
    /\ DraftIdle
    /\ HandoffIdle
    /\ ViewerIdle
    /\ SpellIdle
    /\ PostIdle
    /\ TocIdle
    /\ RefsIdle
    /\ ExportIdle

NextRibbon ==
    \/ MountRibbon
    \/ UnmountRibbon
    \/ \E kind \in EditorEvents : EditorEvent(kind)

SpecRibbon == InitRibbon /\ [][NextRibbon]_vars

(***************************************************************************)
(* The autosaving Word editor (word/page.tsx lines 27-111).  The document  *)
(* is held as the sequence of its pieces: the starter text or a draft,     *)
(* followed by what the user typed.  idb-keyval serves the requests on     *)
(* its store in the order they were made.                                  *)
(***************************************************************************)
MaxEdits == 2

AUTOSAVE_KEY == "almeida-editor-word-draft"

\* The document the editor is created with
starterContent ==
    <<"<h1>Documento em branco</h1>", "<p>Comece a digitar ou cole seu conteúdo aqui. Todas as alterações são salvas automaticamente.</p>">>

\* What an earlier session left under the key: nothing, or its document.
StoredDrafts == {NoDraft, starterContent \o <<"d">>}

Typed == {"a", "b"}

GetRequest(withEditor) == [op |-> "get", key |-> AUTOSAVE_KEY, editor |-> withEditor]

SetRequest(html) == [op |-> "set", key |-> AUTOSAVE_KEY, html |-> html]

\* useEditor creates the editor; the effect runs again, now with the
\* editor: loadDraft asks for the draft.
EditorCreated ==
    /\ draftContent = NoEditor
    /\ draftContent' = starterContent
    /\ idbQueue' = Append(idbQueue, GetRequest(TRUE))
    /\ UNCHANGED <<draftStore, draftEdits, draftNotices, extractVars, textVars>>
    /\ OtherViewsUnchanged("draft")

\* The user changes the document: onUpdate saves it, and shows the notice
\* unless one was shown in the last five seconds.
UserEdit ==
    /\ draftContent # NoEditor
    /\ draftEdits < MaxEdits
    /\ draftEdits' = draftEdits + 1
    /\ \E c \in Typed :
          /\ draftContent' = Append(draftContent, c)
          /\ idbQueue' = Append(idbQueue, SetRequest(Append(draftContent, c)))
    /\ \E elapsed \in BOOLEAN :
          draftNotices' = IF draftNotices = 0 \/ elapsed THEN draftNotices + 1
                          ELSE draftNotices
    /\ UNCHANGED <<draftStore, extractVars, textVars>>
    /\ OtherViewsUnchanged("draft")

\* A plausible repair: a draft that arrives after the user has edited is
\* not loaded.
ServeGetKeepEdits ==
    /\ idbQueue # <<>>
    /\ Head(idbQueue).op = "get"
    /\ idbQueue' = Tail(idbQueue)
    /\ draftContent' = IF draftStore # NoDraft /\ Head(idbQueue).editor
                          /\ draftEdits = 0
                       THEN draftStore
                       ELSE draftContent
    /\ UNCHANGED <<draftStore, draftEdits, draftNotices, extractVars, textVars>>
    /\ OtherViewsUnchanged("draft")

\* idb-keyval answers a get: loadDraft goes on after its await, and sets
\* the content without emitting an update.
ServeGet ==
    /\ idbQueue # <<>>
    /\ Head(idbQueue).op = "get"
    /\ idbQueue' = Tail(idbQueue)
    /\ draftContent' = IF draftStore # NoDraft /\ Head(idbQueue).editor
                       THEN draftStore
                       ELSE draftContent
    /\ UNCHANGED <<draftStore, draftEdits, draftNotices, extractVars, textVars>>
    /\ OtherViewsUnchanged("draft")

\* idb-keyval carries out a set.
ServeSet ==
    /\ idbQueue # <<>>
    /\ Head(idbQueue).op = "set"
    /\ idbQueue' = Tail(idbQueue)
    /\ draftStore' = Head(idbQueue).html
    /\ UNCHANGED <<draftContent, draftEdits, draftNotices, extractVars, textVars>>
    /\ OtherViewsUnchanged("draft")

\* After the first render: no editor yet, and the effect has called
\* loadDraft without one.
InitDraft ==
    /\ hasWindow = TRUE
    /\ dataUri = DataPrefix
    /\ InitExtract
    /\ text = <<>>
    /\ InitText
    /\ WorkerIdle
    /\ RibbonIdle
    /\ draftStore \in StoredDrafts
    /\ draftContent = NoEditor
    /\ idbQueue = <<GetRequest(FALSE)>>
    /\ draftEdits = 0
    /\ draftNotices = 0
    /\ HandoffIdle
    /\ ViewerIdle
    /\ SpellIdle
    /\ PostIdle
    /\ TocIdle
    /\ RefsIdle
    /\ ExportIdle

NextDraft == EditorCreated \/ UserEdit \/ ServeGet \/ ServeSet

SpecDraft == InitDraft /\ [][NextDraft]_vars

(***************************************************************************)
(* The handoff of a converted PDF.  Home (word/page.tsx lines 190-282)     *)
(* shows one of two tabs and mounts only the view of the tab shown: the    *)
(* Word editor with the import effect (part_001 lines 446-477) or the PDF  *)
(* view, whose handleConvertToWord (pdf/page.tsx lines 166-189) awaits     *)
(* extractPdfToHtml and hands the result over.  A call of                  *)
(* extractPdfToHtml goes on when the view that made it is unmounted.       *)
(***************************************************************************)
MaxConversions == 2

IMPORT_EVENT == "almeida:import"

IMPORT_STORAGE_KEY == "almeida-editor-word-import"

\* The document the Word editor is created with
wordStarterContent ==
    <<"<h1>Documento em branco</h1>", "<p>Comece a digitar ou cole seu conteúdo aqui. Use os botões do ribbon para salvar ou exportar quando quiser.</p>">>

\* What extractPdfToHtml returns for a document: the page loop as a whole.
PageSection(n, items) ==
    LET map == CollectLines(items, 1, <<>>)
    IN  PageFragment(n, LinesArray(map, SortKeysDesc(MapKeys(map))))

HtmlOf(doc) ==
    Article(FinalFragments([p \in 1..Len(doc) |-> PageSection(p, doc[p])]))

\* The PDF files the user can choose, as FileReader gives them, and the
\* document pdfjs reads from each.
PdfFiles == {DataPrefix \o <<"1">>, DataPrefix \o <<"2">>}

Decoded(uri) ==
    IF uri = DataPrefix \o <<"1">>
    THEN << <<Run(<<"A">>, 0, 8)>> >>
    ELSE << <<Run(<<" ">>, 0, 8)>> >>

ConvertedNotice == "PDF convertido e enviado para o editor Word."

ConvertErrorNotice == "Não foi possível converter este PDF."

ImportedNotice == "Conteúdo importado do PDF."

LoadedNotice == "PDF carregado com sucesso!"

\* Tabs mounts the content of the tab shown and unmounts the other: a new
\* PdfEditor has no file, a new WordEditor no editor yet; the calls made
\* by a PdfEditor that is unmounted lose their component.
ShowTab(tab) ==
    /\ activeTab' = tab
    /\ file' = NoFile
    /\ isConverting' = FALSE
    /\ IF tab = "pdf"
       THEN /\ wordEditor' = "unmounted"
            /\ wordContent' = NoEditor
            /\ inFlight' = inFlight
       ELSE /\ wordEditor' = "loading"
            /\ wordContent' = NoEditor
            /\ inFlight' = {[c EXCEPT !.orphan = TRUE] : c \in inFlight}

\* window.location.hash = value: a hashchange event when the hash changes.
SetHash(value) ==
    /\ hash' = value
    /\ hashChanged' = (hashChanged \/ hash # value)

\* Home: Tabs reports a value that is not the one shown, which is the
\* trigger of the other tab when the user clicks it.
handleTabChange(value) ==
    /\ value # activeTab
    /\ LET tab == IF value = "pdf" THEN "pdf" ELSE "word"
       IN  /\ IF tab # activeTab
              THEN ShowTab(tab)
              ELSE UNCHANGED <<activeTab, file, isConverting, wordEditor,
                               wordContent, inFlight>>
           /\ SetHash(tab)
    /\ UNCHANGED <<conversions, settled, importKey, dispatched, applied, notice,
                   extractVars, textVars>>
    /\ OtherViewsUnchanged("handoff")

applyHashUntested ==
    /\ hashChanged
    /\ hashChanged' = FALSE
    /\ IF hash # activeTab
       THEN ShowTab(hash)
       ELSE UNCHANGED <<activeTab, file, isConverting, wordEditor, wordContent,
                        inFlight>>
    /\ UNCHANGED <<hash, conversions, settled, importKey, dispatched, applied,
                   notice, extractVars, textVars>>
    /\ OtherViewsUnchanged("handoff")

\* Home: the listener of hashchange.
applyHash ==
    /\ hashChanged
    /\ hashChanged' = FALSE
    /\ IF hash \in {"word", "pdf"} /\ hash # activeTab
       THEN ShowTab(hash)
       ELSE UNCHANGED <<activeTab, file, isConverting, wordEditor, wordContent,
                        inFlight>>
    /\ UNCHANGED <<hash, conversions, settled, importKey, dispatched, applied,
                   notice, extractVars, textVars>>
    /\ OtherViewsUnchanged("handoff")

\* PdfEditor: the user chooses a PDF file and the FileReader has read it.
onFileChange(uri) ==
    /\ activeTab = "pdf"
    /\ file' = uri
    /\ notice' = LoadedNotice
    /\ UNCHANGED <<activeTab, hash, hashChanged, isConverting, inFlight,
                   conversions, settled, importKey, dispatched, wordEditor,
                   wordContent, applied, extractVars, textVars>>
    /\ OtherViewsUnchanged("handoff")

\* PdfEditor: the convert button, enabled with a file and no conversion
\* awaited; handleConvertToWord up to its await.
ConvertStart ==
    /\ activeTab = "pdf"
    /\ file # NoFile
    /\ ~isConverting
    /\ conversions < MaxConversions
    /\ conversions' = conversions + 1
    /\ isConverting' = TRUE
    /\ inFlight' = inFlight \cup {[id |-> conversions + 1, uri |-> file,
                                   orphan |-> FALSE]}
    /\ UNCHANGED <<activeTab, hash, hashChanged, file, settled, importKey,
                   dispatched, wordEditor, wordContent, applied, notice,
                   extractVars, textVars>>
    /\ OtherViewsUnchanged("handoff")

\* A plausible slip: the listener sets the content and leaves the key.
handleImportEventKeepsKey(item) ==
    /\ importKey' = item
    /\ wordContent' = item.html
    /\ applied' = Append(applied, item.id)

\* WordEditor: the listener of the import event, run by dispatchEvent
\* right after setItem.
handleImportEvent(item) ==
    /\ importKey' = NoItem
    /\ wordContent' = item.html
    /\ applied' = Append(applied, item.id)

\* WordEditor: the read of the key when the effect runs.
handleStorageImport ==
    IF importKey # NoItem
    THEN /\ importKey' = NoItem
         /\ wordContent' = importKey.html
         /\ applied' = Append(applied, importKey.id)
         /\ notice' = ImportedNotice
    ELSE /\ wordContent' = wordStarterContent
         /\ UNCHANGED <<importKey, applied, notice>>

\* finally: setIsConverting(false), on the component that made the call.
ConvertSettled(c, ok) ==
    /\ inFlight' = inFlight \ {c}
    /\ settled' = Append(settled, [id |-> c.id, uri |-> c.uri, ok |-> ok])
    /\ isConverting' = IF c.orphan THEN isConverting ELSE FALSE

\* A plausible slip: the result is announced by the event alone.
ConvertResolvedEventOnly ==
    \E c \in inFlight :
        LET item == [html |-> HtmlOf(Decoded(c.uri)), id |-> c.id]
        IN  /\ ConvertSettled(c, TRUE)
            /\ dispatched' = Append(dispatched, c.id)
            /\ IF wordEditor = "ready"
               THEN handleImportEvent(item)
               ELSE UNCHANGED <<importKey, wordContent, applied>>
            /\ SetHash("word")
            /\ notice' = ConvertedNotice
            /\ UNCHANGED <<activeTab, file, conversions, wordEditor,
                           extractVars, textVars>>
            /\ OtherViewsUnchanged("handoff")

\* handleConvertToWord after its await, the call fulfilled: setItem,
\* dispatchEvent (the listener runs inside it), the hash, the notice.
ConvertResolved ==
    \E c \in inFlight :
        LET item == [html |-> HtmlOf(Decoded(c.uri)), id |-> c.id]
        IN  /\ ConvertSettled(c, TRUE)
            /\ dispatched' = Append(dispatched, c.id)
            /\ IF wordEditor = "ready"
               THEN handleImportEvent(item)
               ELSE /\ importKey' = item
                    /\ UNCHANGED <<wordContent, applied>>
            /\ SetHash("word")
            /\ notice' = ConvertedNotice
            /\ UNCHANGED <<activeTab, file, conversions, wordEditor,
                           extractVars, textVars>>
            /\ OtherViewsUnchanged("handoff")

\* A plausible slip: the view is switched whatever the outcome.
ConvertRejectedSwitches ==
    \E c \in inFlight :
        /\ ConvertSettled(c, FALSE)
        /\ notice' = ConvertErrorNotice
        /\ SetHash("word")
        /\ UNCHANGED <<activeTab, file, conversions, importKey, dispatched,
                       wordEditor, wordContent, applied, extractVars, textVars>>
        /\ OtherViewsUnchanged("handoff")

\* handleConvertToWord after its await, the call rejected: catch, finally.
ConvertRejected ==
    \E c \in inFlight :
        /\ ConvertSettled(c, FALSE)
        /\ notice' = ConvertErrorNotice
        /\ UNCHANGED <<activeTab, hash, hashChanged, file, conversions,
                       importKey, dispatched, wordEditor, wordContent, applied,
                       extractVars, textVars>>
        /\ OtherViewsUnchanged("handoff")

\* WordEditor: useEditor has created the editor and the import effect
\* runs: addEventListener, handleStorageImport.
WordEditorReady ==
    /\ wordEditor = "loading"
    /\ wordEditor' = "ready"
    /\ handleStorageImport
    /\ UNCHANGED <<activeTab, hash, hashChanged, file, isConverting, inFlight,
                   conversions, settled, dispatched, extractVars, textVars>>
    /\ OtherViewsUnchanged("handoff")

\* Home after its first render and effect, on the URL the page was opened
\* with.
InitHandoff ==
    /\ hasWindow = TRUE
    /\ dataUri = DataPrefix
    /\ InitExtract
    /\ text = <<>>
    /\ InitText
    /\ WorkerIdle
    /\ RibbonIdle
    /\ DraftIdle
    /\ ViewerIdle
    /\ SpellIdle
    /\ PostIdle
    /\ TocIdle
    /\ RefsIdle
    /\ ExportIdle
    /\ hash \in {"", "word", "pdf"}
    /\ activeTab = IF hash = "pdf" THEN "pdf" ELSE "word"
    /\ hashChanged = FALSE
    /\ file = NoFile
    /\ isConverting = FALSE
    /\ inFlight = {}
    /\ conversions = 0
    /\ settled = <<>>
    /\ importKey = NoItem
    /\ dispatched = <<>>
    /\ wordEditor = IF hash = "pdf" THEN "unmounted" ELSE "loading"
    /\ wordContent = NoEditor
    /\ applied = <<>>
    /\ notice = NoNotice

NextHandoff ==
    \/ \E value \in {"word", "pdf"} : handleTabChange(value)
    \/ applyHash
    \/ \E uri \in PdfFiles : onFileChange(uri)
    \/ ConvertStart
    \/ ConvertResolved
    \/ ConvertRejected
    \/ WordEditorReady

SpecHandoff == InitHandoff /\ [][NextHandoff]_vars

\* The browser delivers a hashchange event that is waiting, and useEditor
\* creates the editor of a Word view that stays mounted.
SpecHandoffFair ==
    /\ SpecHandoff
    /\ WF_vars(applyHash)
    /\ WF_vars(WordEditorReady)

\* The values Tabs can be made to report, and the hashes of the links of the
\* page and of the address bar.
TabValues == {"word", "pdf", "roadmap"}

Hashes == {"", "word", "pdf", "roadmap"}

\* The user follows a link of the page (href="#roadmap") or edits the hash
\* in the address bar.
Navigate(value) ==
    /\ value # hash
    /\ SetHash(value)
    /\ UNCHANGED <<activeTab, file, isConverting, inFlight, conversions,
                   settled, importKey, dispatched, wordEditor, wordContent,
                   applied, notice, extractVars, textVars>>
    /\ OtherViewsUnchanged("handoff")

\* Home with its two views, under every value of the tabs and of the hash.
NextHome ==
    \/ \E value \in TabValues : handleTabChange(value)
    \/ \E value \in Hashes : Navigate(value)
    \/ applyHash
    \/ \E uri \in PdfFiles : onFileChange(uri)
    \/ ConvertStart
    \/ ConvertResolved
    \/ ConvertRejected
    \/ WordEditorReady

SpecHome == InitHandoff /\ [][NextHome]_vars

(***************************************************************************)
(* The PDF viewer: zoom, file loading and the text fields laid over the    *)
(* pages (pdf/page.tsx lines 81-230, 384-403 and 457-583).                 *)
(***************************************************************************)

\* Text fields created in one run of the viewer.
MaxFields == 2

\* The arithmetic of doubles: the exact sum or difference, rounded to the
\* 53 bits of the binade it falls in, ties to the even significand.
Carry(hi, lo) ==
    IF lo >= Limb THEN Double(hi + 1, lo - Limb)
    ELSE IF lo < 0 THEN Double(hi - 1, lo + Limb)
    ELSE Double(hi, lo)

ExactSum(a, b) == Carry(a.hi + b.hi, a.lo + b.lo)

ExactDifference(a, b) == Carry(a.hi - b.hi, a.lo - b.lo)

\* The distance of neighbouring doubles around v, for v from 1/4 to 4.
Ulp(v) ==
    IF v.hi >= 2^28 THEN 16
    ELSE IF v.hi >= 2^27 THEN 8
    ELSE IF v.hi >= 2^26 THEN 4
    ELSE 2

RoundToNearestEven(v) ==
    LET u == Ulp(v)
        r == v.lo % u
        down == v.lo - r
        odd == (down \div u) % 2 = 1
        up == (2 * r > u) \/ (2 * r = u /\ odd)
    IN  Carry(v.hi, IF up THEN down + u ELSE down)

DoubleAdd(a, b) == RoundToNearestEven(ExactSum(a, b))

DoubleSubtract(a, b) == RoundToNearestEven(ExactDifference(a, b))

LessThan(a, b) == a.hi < b.hi \/ (a.hi = b.hi /\ a.lo < b.lo)

MathMin(a, b) == IF LessThan(b, a) THEN b ELSE a

MathMax(a, b) == IF LessThan(a, b) THEN b ELSE a

\* The files the user can pick in the file input.
PickedFiles ==
    {[type |-> "application/pdf", uri |-> u] : u \in PdfFiles}
        \cup {[type |-> "text/plain", uri |-> DataPrefix \o <<"3">>]}

\* The texts a field can hold: none, blank, and a word.
FieldTexts == {"", " ", "a"}

FieldKeys == {"Backspace", "Delete", "Escape", "a"}

InvalidFileNotice == "Envie um arquivo PDF válido."

ReadErrorNotice == "Não foi possível ler o arquivo selecionado."

NeedsFileNotice == "Carregue um PDF para habilitar a edição de campos."

EditingOnNotice == "Modo de edição de campos ativado."

EditingOffNotice == "Modo de edição desativado."

hasFile == viewerFile # NoFile

createFieldId == "field-" \o ToString(fieldsCreated + 1)

FieldIds == {textFields[i].id : i \in 1..Len(textFields)}

Field(id) == textFields[CHOOSE i \in 1..Len(textFields) : textFields[i].id = id]

\* string.trim() of a text of FieldTexts
TrimmedText(t) == IF t = " " THEN "" ELSE t

\* The markers on the screen: those of the fields on a page of the document
\* shown (lines 339, 371 and 384-386).
Rendered(id) ==
    /\ hasFile
    /\ id \in FieldIds
    /\ Field(id).page \in 1..numPages

\* The viewer's step leaves the rest of the program alone.
ViewerStep ==
    /\ UNCHANGED <<extractVars, textVars>>
    /\ OtherViewsUnchanged("viewer")

\* onFileChange up to reader.readAsDataURL(file)
readAsDataURL(picked) ==
    /\ IF picked.type # "application/pdf"
       THEN /\ viewerNotice' = InvalidFileNotice
            /\ UNCHANGED fileReads
       ELSE /\ fileReads' = fileReads \cup {picked.uri}
            /\ UNCHANGED viewerNotice
    /\ UNCHANGED <<scale, viewerFile, numPages, isEditingFields, textFields,
                   activeFieldId, fieldsCreated>>
    /\ ViewerStep

\* reader.onload
readerOnLoad ==
    /\ \E uri \in fileReads :
        /\ fileReads' = fileReads \ {uri}
        /\ viewerFile' = uri
    /\ isEditingFields' = FALSE
    /\ textFields' = <<>>
    /\ activeFieldId' = NoFieldId
    /\ viewerNotice' = LoadedNotice
    /\ UNCHANGED <<scale, numPages, fieldsCreated>>
    /\ ViewerStep

\* reader.onerror
readerOnError ==
    /\ \E uri \in fileReads : fileReads' = fileReads \ {uri}
    /\ viewerNotice' = ReadErrorNotice
    /\ UNCHANGED <<scale, viewerFile, numPages, isEditingFields, textFields,
                   activeFieldId, fieldsCreated>>
    /\ ViewerStep

\* The pages react-pdf finds in each of the files.
PagesOf(uri) == IF uri = DataPrefix \o <<"1">> THEN 1 ELSE 2

\* react-pdf has read the document shown.
onDocumentLoadSuccess ==
    /\ hasFile
    /\ numPages' = PagesOf(viewerFile)
    /\ UNCHANGED <<scale, viewerFile, fileReads, isEditingFields, textFields,
                   activeFieldId, fieldsCreated, viewerNotice>>
    /\ ViewerStep

\* The button "Limpar", disabled without a file.
resetViewer ==
    /\ hasFile
    /\ viewerFile' = NoFile
    /\ numPages' = 0
    /\ isEditingFields' = FALSE
    /\ textFields' = <<>>
    /\ activeFieldId' = NoFieldId
    /\ UNCHANGED <<scale, fileReads, fieldsCreated, viewerNotice>>
    /\ ViewerStep

increaseScaleUnbounded ==
    /\ hasFile
    /\ scale' = DoubleAdd(scale, Tenth)
    /\ UNCHANGED <<viewerFile, fileReads, numPages, isEditingFields,
                   textFields, activeFieldId, fieldsCreated, viewerNotice>>
    /\ ViewerStep

\* The zoom buttons, disabled without a file.
increaseScale ==
    /\ hasFile
    /\ scale' = MathMin(DoubleAdd(scale, Tenth), MaxScale)
    /\ UNCHANGED <<viewerFile, fileReads, numPages, isEditingFields,
                   textFields, activeFieldId, fieldsCreated, viewerNotice>>
    /\ ViewerStep

decreaseScale ==
    /\ hasFile
    /\ scale' = MathMax(DoubleSubtract(scale, Tenth), MinScale)
    /\ UNCHANGED <<viewerFile, fileReads, numPages, isEditingFields,
                   textFields, activeFieldId, fieldsCreated, viewerNotice>>
    /\ ViewerStep

handleToggleEditFieldsNoCheck ==
    /\ isEditingFields' = ~isEditingFields
    /\ activeFieldId' = IF isEditingFields THEN NoFieldId ELSE activeFieldId
    /\ viewerNotice' =
           IF isEditingFields THEN EditingOffNotice ELSE EditingOnNotice
    /\ UNCHANGED <<scale, viewerFile, fileReads, numPages, textFields,
                   fieldsCreated>>
    /\ ViewerStep

\* The button "Editar campos", which is never disabled.
handleToggleEditFields ==
    /\ IF ~hasFile
       THEN /\ viewerNotice' = NeedsFileNotice
            /\ UNCHANGED <<isEditingFields, activeFieldId>>
       ELSE /\ isEditingFields' = ~isEditingFields
            /\ activeFieldId' =
                   IF isEditingFields THEN NoFieldId ELSE activeFieldId
            /\ viewerNotice' =
                   IF isEditingFields THEN EditingOffNotice
                   ELSE EditingOnNotice
    /\ UNCHANGED <<scale, viewerFile, fileReads, numPages, textFields,
                   fieldsCreated>>
    /\ ViewerStep

\* A click on a page of the document shown.
handlePageClick(page) ==
    /\ hasFile
    /\ page \in 1..numPages
    /\ fieldsCreated < MaxFields
    /\ IF ~isEditingFields
       THEN UNCHANGED <<textFields, activeFieldId, fieldsCreated>>
       ELSE /\ textFields' = Append(textFields,
                   [id |-> createFieldId, page |-> page, text |-> ""])
            /\ activeFieldId' = createFieldId
            /\ fieldsCreated' = fieldsCreated + 1
    /\ UNCHANGED <<scale, viewerFile, fileReads, numPages, isEditingFields,
                   viewerNotice>>
    /\ ViewerStep

handleFieldTextChange(id, value) ==
    [i \in 1..Len(textFields) |->
        IF textFields[i].id = id
        THEN [textFields[i] EXCEPT !.text = value]
        ELSE textFields[i]]

handleFieldRemoveKeepsActive(id) ==
    /\ textFields' = SelectSeq(textFields, LAMBDA field : field.id # id)
    /\ UNCHANGED activeFieldId

handleFieldRemove(id) ==
    /\ textFields' = SelectSeq(textFields, LAMBDA field : field.id # id)
    /\ activeFieldId' = IF activeFieldId = id THEN NoFieldId ELSE activeFieldId

\* TextFieldMarker: a click on the marker of a field.
handleClick(id) ==
    /\ Rendered(id)
    /\ activeFieldId' = IF isEditingFields THEN id ELSE activeFieldId
    /\ UNCHANGED <<scale, viewerFile, fileReads, numPages, isEditingFields,
                   textFields, fieldsCreated, viewerNotice>>
    /\ ViewerStep

\* TextFieldMarker: typing in the marker, which is editable in edit mode.
handleInput(id, value) ==
    /\ Rendered(id)
    /\ isEditingFields
    /\ textFields' = handleFieldTextChange(id, value)
    /\ UNCHANGED <<scale, viewerFile, fileReads, numPages, isEditingFields,
                   activeFieldId, fieldsCreated, viewerNotice>>
    /\ ViewerStep

\* TextFieldMarker: a key pressed in the marker; Escape only blurs it.
handleKeyDown(id, key) ==
    /\ Rendered(id)
    /\ IF isEditingFields /\ key \in {"Backspace", "Delete"}
            /\ Field(id).text = ""
       THEN handleFieldRemove(id)
       ELSE UNCHANGED <<textFields, activeFieldId>>
    /\ UNCHANGED <<scale, viewerFile, fileReads, numPages, isEditingFields,
                   fieldsCreated, viewerNotice>>
    /\ ViewerStep

\* TextFieldMarker: the marker loses the focus.
handleBlur(id) ==
    /\ Rendered(id)
    /\ IF ~isEditingFields
       THEN UNCHANGED <<textFields, activeFieldId>>
       ELSE IF TrimmedText(Field(id).text) = ""
       THEN handleFieldRemove(id)
       ELSE /\ activeFieldId' =
                   IF activeFieldId = id THEN NoFieldId ELSE activeFieldId
            /\ UNCHANGED textFields
    /\ UNCHANGED <<scale, viewerFile, fileReads, numPages, isEditingFields,
                   fieldsCreated, viewerNotice>>
    /\ ViewerStep

\* TextFieldMarker: the button that removes the active field.
onRemoveClick(id) ==
    /\ Rendered(id)
    /\ isEditingFields
    /\ activeFieldId = id
    /\ handleFieldRemove(id)
    /\ UNCHANGED <<scale, viewerFile, fileReads, numPages, isEditingFields,
                   fieldsCreated, viewerNotice>>
    /\ ViewerStep

InitViewer ==
    /\ hasWindow = TRUE
    /\ dataUri = DataPrefix
    /\ InitExtract
    /\ text = <<>>
    /\ InitText
    /\ ViewsIdle

\* Zooming a document: files come and go, the zoom buttons are pressed.
NextZoom ==
    \/ \E picked \in PickedFiles : readAsDataURL(picked)
    \/ readerOnLoad
    \/ readerOnError
    \/ resetViewer
    \/ increaseScale
    \/ decreaseScale

SpecZoom == InitViewer /\ [][NextZoom]_vars

\* Editing the fields of a document at the zoom the viewer starts with.
NextFields ==
    \/ \E picked \in PickedFiles : readAsDataURL(picked)
    \/ readerOnLoad
    \/ readerOnError
    \/ onDocumentLoadSuccess
    \/ resetViewer
    \/ handleToggleEditFields
    \/ \E page \in 1..numPages : handlePageClick(page)
    \/ \E id \in FieldIds : handleClick(id)
    \/ \E id \in FieldIds, value \in FieldTexts : handleInput(id, value)
    \/ \E id \in FieldIds, key \in FieldKeys : handleKeyDown(id, key)
    \/ \E id \in FieldIds : handleBlur(id)
    \/ \E id \in FieldIds : onRemoveClick(id)

SpecFields == InitViewer /\ [][NextFields]_vars

(***************************************************************************)
(* The spellcheck of the selection (part_001 lines 110-121 and 324-363).   *)
(***************************************************************************)

\* Changes the user makes to the document in one run, and corrections
\* applied in it.
MaxTyped == 1

MaxChecks == 1

\* The documents the editor can hold when the spellcheck is used.
SpellDocs == {<<"a", "b">>, <<"a", " ", "b">>, <<" ", "b">>}

\* What the user types, and what the server answers as the corrected text.
TypedChars == {"x", " "}

Corrections == {<<"c">>, <<"c", "d">>}

SelectNotice == "Selecione o trecho que deseja corrigir."

AppliedNotice == "Correção aplicada."

SpellErrorNotice == "Erro ao aplicar correção ortográfica."

\* editor.state.doc.textBetween(from, to, " ") within one paragraph
textBetween(from, to) == SubSeq(spellDoc, from + 1, to)

\* The text of convertPlainTextToHtml(corrected) for an answer of one line.
convertPlainTextToHtml(corrected) == Trim(corrected)

\* insertContentAt({ from, to }, html) on the document as it is now
insertContentAt(from, to, content) ==
    SubSeq(spellDoc, 1, from) \o content \o SubSeq(spellDoc, to + 1, Len(spellDoc))

SpellStep ==
    /\ UNCHANGED <<extractVars, textVars>>
    /\ OtherViewsUnchanged("spell")

\* The user moves the cursor or selects a range.
Select(from, to) ==
    /\ from <= to
    /\ to <= Len(spellDoc)
    /\ spellSelection # [from |-> from, to |-> to]
    /\ spellSelection' = [from |-> from, to |-> to]
    /\ UNCHANGED <<spellDoc, isSpellchecking, spellRequest, spellApplied,
                   spellEdits, spellNotice>>
    /\ SpellStep

\* The user types a character over the selection.
TypeChar(ch) ==
    /\ spellEdits < MaxTyped
    /\ spellDoc' = SubSeq(spellDoc, 1, spellSelection.from) \o <<ch>>
                       \o SubSeq(spellDoc, spellSelection.to + 1, Len(spellDoc))
    /\ spellSelection' = [from |-> spellSelection.from + 1,
                          to |-> spellSelection.from + 1]
    /\ spellEdits' = spellEdits + 1
    /\ UNCHANGED <<isSpellchecking, spellRequest, spellApplied, spellNotice>>
    /\ SpellStep

\* The user deletes the selection, or the character before the cursor.
Backspace ==
    /\ spellEdits < MaxTyped
    /\ spellSelection.to > 0
    /\ LET from == IF spellSelection.from = spellSelection.to
                   THEN spellSelection.from - 1
                   ELSE spellSelection.from
       IN  /\ spellDoc' = SubSeq(spellDoc, 1, from)
                              \o SubSeq(spellDoc, spellSelection.to + 1,
                                        Len(spellDoc))
           /\ spellSelection' = [from |-> from, to |-> from]
    /\ spellEdits' = spellEdits + 1
    /\ UNCHANGED <<isSpellchecking, spellRequest, spellApplied, spellNotice>>
    /\ SpellStep

\* runSpellcheck up to its await
runSpellcheck ==
    /\ Len(spellApplied) < MaxChecks
    /\ IF isSpellchecking
       THEN UNCHANGED <<isSpellchecking, spellRequest, spellNotice>>
       ELSE IF \/ spellSelection.from = spellSelection.to
               \/ Trim(textBetween(spellSelection.from, spellSelection.to))
                      = <<>>
       THEN /\ spellNotice' = SelectNotice
            /\ UNCHANGED <<isSpellchecking, spellRequest>>
       ELSE /\ isSpellchecking' = TRUE
            /\ spellRequest' =
                   [from |-> spellSelection.from, to |-> spellSelection.to,
                    text |-> textBetween(spellSelection.from,
                                         spellSelection.to)]
            /\ UNCHANGED spellNotice
    /\ UNCHANGED <<spellDoc, spellSelection, spellApplied, spellEdits>>
    /\ SpellStep

\* The rest of runSpellcheck with an ok response carrying the corrected
\* text: a range that has left the document makes insertContentAt throw.
FetchResolved(corrected) ==
    /\ isSpellchecking
    /\ LET from == spellRequest.from
           to == spellRequest.to
           content == convertPlainTextToHtml(corrected)
       IN  IF to > Len(spellDoc)
           THEN /\ spellNotice' = SpellErrorNotice
                /\ UNCHANGED <<spellDoc, spellSelection, spellApplied>>
           ELSE /\ spellDoc' = insertContentAt(from, to, content)
                /\ spellSelection' = [from |-> from + Len(content),
                                      to |-> from + Len(content)]
                /\ spellApplied' = Append(spellApplied,
                       [sent |-> spellRequest.text,
                        replaced |-> textBetween(from, to)])
                /\ spellNotice' = AppliedNotice
    /\ isSpellchecking' = FALSE
    /\ spellRequest' = NoRequest
    /\ UNCHANGED spellEdits
    /\ SpellStep

\* The rest of runSpellcheck with a response that is not ok or a fetch
\* that fails.
FetchFailed ==
    /\ isSpellchecking
    /\ spellNotice' = SpellErrorNotice
    /\ isSpellchecking' = FALSE
    /\ spellRequest' = NoRequest
    /\ UNCHANGED <<spellDoc, spellSelection, spellApplied, spellEdits>>
    /\ SpellStep

InitSpell ==
    /\ hasWindow = TRUE
    /\ dataUri = DataPrefix
    /\ InitExtract
    /\ text = <<>>
    /\ InitText
    /\ WorkerIdle
    /\ RibbonIdle
    /\ DraftIdle
    /\ HandoffIdle
    /\ ViewerIdle
    /\ PostIdle
    /\ TocIdle
    /\ RefsIdle
    /\ ExportIdle
    /\ spellDoc \in SpellDocs
    /\ spellSelection = [from |-> 0, to |-> 0]
    /\ isSpellchecking = FALSE
    /\ spellRequest = NoRequest
    /\ spellApplied = <<>>
    /\ spellEdits = 0
    /\ spellNotice = NoNotice

NextSpell ==
    \/ \E from, to \in 0..Len(spellDoc) : Select(from, to)
    \/ \E ch \in TypedChars : TypeChar(ch)
    \/ Backspace
    \/ runSpellcheck
    \/ \E corrected \in Corrections : FetchResolved(corrected)
    \/ FetchFailed

SpecSpell == InitSpell /\ [][NextSpell]_vars

(***************************************************************************)
(* The route handler POST of the spellcheck (MenuBar.tsx lines 333-403).   *)
(***************************************************************************)

\* Requests answered in one run.
MaxRequests == 2

\* The texts of a request and of Ollama's answer.
PostTexts == {<<>>, <<" ">>, <<"a">>, <<" ", "a", "\n">>}

\* The bodies of a request: not JSON, the JSON null, and objects whose text
\* is missing, null, a number or a string.
Bodies ==
    {[json |-> "invalid", type |-> "undefined", str |-> <<>>],
     [json |-> "null", type |-> "undefined", str |-> <<>>],
     [json |-> "object", type |-> "undefined", str |-> <<>>],
     [json |-> "object", type |-> "null", str |-> <<>>],
     [json |-> "object", type |-> "number", str |-> <<>>]}
        \cup {[json |-> "object", type |-> "string", str |-> s] :
                 s \in PostTexts}

\* What Ollama does with a call: the fetch fails; a response that is not ok,
\* whose text can be read or not; an ok response that is not JSON, is the
\* JSON null, has no message, has a message without content, with a number
\* or with a string as content.
Answer(kind, str) == [kind |-> kind, str |-> str]

NotCalled == Answer("(not called)", <<>>)

OllamaAnswers ==
    {Answer(k, <<>>) : k \in {"rejected", "notOk", "notOkUnreadable",
                              "invalidJson", "null", "noMessage", "noContent",
                              "number"}}
        \cup {Answer("string", s) : s \in PostTexts}

Response(status, message, corrected) ==
    [status |-> status, error |-> message, corrected |-> corrected]

EmptyTextError == "Texto vazio para correção."

OllamaError == "Falha ao se comunicar com o Ollama"

InvalidAnswerError == "Resposta inválida do Ollama."

InternalError == "Erro interno ao processar correção."

PostStep ==
    /\ UNCHANGED <<extractVars, textVars>>
    /\ OtherViewsUnchanged("post")

Serve(body, answer, response) ==
    /\ served' = Append(served,
           [body |-> body, answer |-> answer, response |-> response])
    /\ postBody' = NoBody
    /\ postPc' = "idle"

\* POST up to its await of fetch: request.json(), the destructuring and the
\* test of the text, each of which can throw into the catch.
POST(body) ==
    /\ postPc = "idle"
    /\ Len(served) < MaxRequests
    /\ IF body.json \in {"invalid", "null"}
       THEN /\ Serve(body, NotCalled, Response(500, InternalError, <<>>))
            /\ UNCHANGED ollamaCalls
       ELSE IF body.type \in {"undefined", "null"}
               \/ (body.type = "string" /\ body.str = <<>>)
       THEN /\ Serve(body, NotCalled, Response(400, EmptyTextError, <<>>))
            /\ UNCHANGED ollamaCalls
       ELSE IF body.type # "string"
       THEN /\ Serve(body, NotCalled, Response(500, InternalError, <<>>))
            /\ UNCHANGED ollamaCalls
       ELSE IF Trim(body.str) = <<>>
       THEN /\ Serve(body, NotCalled, Response(400, EmptyTextError, <<>>))
            /\ UNCHANGED ollamaCalls
       ELSE /\ postBody' = body
            /\ postPc' = "fetch"
            /\ ollamaCalls' = ollamaCalls + 1
            /\ UNCHANGED served
    /\ PostStep

RespondUnchecked(answer) ==
    IF answer.kind \in {"rejected", "notOkUnreadable", "invalidJson", "null",
                        "number"}
    THEN Response(500, InternalError, <<>>)
    ELSE IF answer.kind = "notOk"
    THEN Response(502, OllamaError, <<>>)
    ELSE IF answer.kind \in {"noMessage", "noContent"}
    THEN Response(502, InvalidAnswerError, <<>>)
    ELSE Response(200, "", Trim(answer.str))

\* POST after its await of fetch
Respond(answer) ==
    IF answer.kind \in {"rejected", "notOkUnreadable", "invalidJson", "null",
                        "number"}
    THEN Response(500, InternalError, <<>>)
    ELSE IF answer.kind = "notOk"
    THEN Response(502, OllamaError, <<>>)
    ELSE IF answer.kind \in {"noMessage", "noContent"}
            \/ Trim(answer.str) = <<>>
    THEN Response(502, InvalidAnswerError, <<>>)
    ELSE Response(200, "", Trim(answer.str))

OllamaAnswered(answer) ==
    /\ postPc = "fetch"
    /\ Serve(postBody, answer, Respond(answer))
    /\ UNCHANGED ollamaCalls
    /\ PostStep

InitPost ==
    /\ hasWindow = TRUE
    /\ dataUri = DataPrefix
    /\ InitExtract
    /\ text = <<>>
    /\ InitText
    /\ ViewsIdle

NextPost ==
    \/ \E body \in Bodies : POST(body)
    \/ \E answer \in OllamaAnswers : OllamaAnswered(answer)

SpecPost == InitPost /\ [][NextPost]_vars

(***************************************************************************)
(* The table of contents (part_001 lines 197-246 and 310-321):             *)
(* insertTableOfContents and updateFields are both buildTableOfContents.   *)
(***************************************************************************)

\* Blocks of a document before its first table of contents, and calls of
\* buildTableOfContents in one run.
MaxBlocks == 3

MaxRuns == 3

\* The blocks the user writes: headings with a title, a blank heading and
\* a paragraph.
WrittenBlocks ==
    {Heading(1, "A"), Heading(2, "B"), Heading(1, " "), Paragraph("x")}

WrittenDocs ==
    UNION {[1..n -> WrittenBlocks] : n \in 1..MaxBlocks}

NoHeadingNotice == "Nenhum título foi encontrado para gerar o sumário."

IsHeading(node) == node.kind = "heading"

\* The headings buildTableOfContents collects: descendants in document
\* order, the trimmed text of every heading that has one.
RECURSIVE CollectHeadings(_)
CollectHeadings(doc) ==
    IF doc = <<>> THEN <<>>
    ELSE IF IsHeading(Head(doc)) /\ TrimmedText(Head(doc).text) # ""
    THEN <<TrimmedText(Head(doc).text)>> \o CollectHeadings(Tail(doc))
    ELSE CollectHeadings(Tail(doc))

\* removeExistingToc: from the first heading "Sumário" up to the next
\* heading with another text, or to the end of the document; a document
\* emptied by deleteRange holds one empty paragraph.
TocStarts(doc) ==
    {i \in 1..Len(doc) : IsHeading(doc[i]) /\ doc[i].text = "Sumário"}

Min(S) == CHOOSE m \in S : \A n \in S : m <= n

removeExistingToc(doc) ==
    IF TocStarts(doc) = {} THEN doc
    ELSE LET start == Min(TocStarts(doc))
             ends == {j \in (start + 1)..Len(doc) :
                         IsHeading(doc[j]) /\ doc[j].text # "Sumário"}
             end == IF ends = {} THEN Len(doc) + 1 ELSE Min(ends)
             left == SubSeq(doc, 1, start - 1) \o SubSeq(doc, end, Len(doc))
         IN  IF left = <<>> THEN <<Paragraph("")>> ELSE left

TocStep ==
    /\ UNCHANGED <<extractVars, textVars>>
    /\ OtherViewsUnchanged("toc")

buildTableOfContents ==
    /\ tocRuns < MaxRuns
    /\ tocRuns' = tocRuns + 1
    /\ LET headings == CollectHeadings(tocDoc)
       IN  IF headings = <<>>
           THEN /\ tocNotice' = NoHeadingNotice
                /\ UNCHANGED tocDoc
           ELSE /\ tocDoc' = <<Heading(2, "Sumário"), BulletList(headings)>>
                                 \o removeExistingToc(tocDoc)
                /\ UNCHANGED tocNotice
    /\ TocStep

InitToc ==
    /\ hasWindow = TRUE
    /\ dataUri = DataPrefix
    /\ InitExtract
    /\ text = <<>>
    /\ InitText
    /\ WorkerIdle
    /\ RibbonIdle
    /\ DraftIdle
    /\ HandoffIdle
    /\ ViewerIdle
    /\ SpellIdle
    /\ PostIdle
    /\ RefsIdle
    /\ ExportIdle
    /\ tocDoc \in WrittenDocs
    /\ tocRuns = 0
    /\ tocNotice = NoNotice

NextToc == buildTableOfContents

SpecToc == InitToc /\ [][NextToc]_vars

(***************************************************************************)
(* Footnotes, endnotes and captions (part_001 lines 135-138, 188-195,      *)
(* 248-266 and 294-308).                                                   *)
(***************************************************************************)

\* Insertions in one run.
MaxInsertions == 3

\* window.prompt: cancelled, or the text typed.
Cancelled == <<"(null)">>

PromptAnswers == {Cancelled, <<" ">>, <<"a", "<">>}

\* A piece of HTML the insertions build: its class, the index it shows and
\* the escaped text after it.
Piece(class, index, t) == [class |-> class, index |-> index, text |-> t]

\* escapeHtml(text?.trim() || fallback)
safeText(answer, fallback) ==
    escapeHtml(IF answer = Cancelled \/ Trim(answer) = <<>>
               THEN fallback
               ELSE Trim(answer))

\* insertContent at the cursor, which is at the start or at the end.
insertContent(doc, atStart, piece) ==
    IF atStart THEN <<piece>> \o doc ELSE Append(doc, piece)

appendAtEnd(doc, piece) == Append(doc, piece)

RefsStep ==
    /\ UNCHANGED <<extractVars, textVars>>
    /\ OtherViewsUnchanged("refs")

Logged(kind, answer) ==
    /\ Len(refsLog) < MaxInsertions
    /\ refsLog' = Append(refsLog, [kind |-> kind, answer |-> answer])

insertFootnote(answer, atStart) ==
    /\ Logged("footnote", answer)
    /\ footnoteCounter' = footnoteCounter + 1
    /\ LET index == footnoteCounter
       IN  refsDoc' = appendAtEnd(
               insertContent(refsDoc, atStart,
                   Piece("footnote-ref", index, <<>>)),
               Piece("footnote-item", index,
                   safeText(answer, <<"Nota ", ToString(index)>>)))
    /\ UNCHANGED <<endnoteCounter, figureCounter, tableCounter>>
    /\ RefsStep

insertEndnoteSharedCounter(answer, atStart) ==
    /\ Logged("endnote", answer)
    /\ footnoteCounter' = footnoteCounter + 1
    /\ LET index == footnoteCounter
       IN  refsDoc' = appendAtEnd(
               insertContent(refsDoc, atStart,
                   Piece("endnote-ref", index, <<>>)),
               Piece("endnote-item", index,
                   safeText(answer, <<"Nota de fim ", ToString(index)>>)))
    /\ UNCHANGED <<endnoteCounter, figureCounter, tableCounter>>
    /\ RefsStep

insertEndnote(answer, atStart) ==
    /\ Logged("endnote", answer)
    /\ endnoteCounter' = endnoteCounter + 1
    /\ LET index == endnoteCounter
       IN  refsDoc' = appendAtEnd(
               insertContent(refsDoc, atStart,
                   Piece("endnote-ref", index, <<>>)),
               Piece("endnote-item", index,
                   safeText(answer, <<"Nota de fim ", ToString(index)>>)))
    /\ UNCHANGED <<footnoteCounter, figureCounter, tableCounter>>
    /\ RefsStep

insertFigureCaption(answer, atStart) ==
    /\ Logged("figure", answer)
    /\ figureCounter' = figureCounter + 1
    /\ LET index == figureCounter
       IN  refsDoc' = insertContent(refsDoc, atStart,
               Piece("figure-caption", index,
                   safeText(answer, <<"Figura ", ToString(index)>>)))
    /\ UNCHANGED <<footnoteCounter, endnoteCounter, tableCounter>>
    /\ RefsStep

insertTableCaption(answer, atStart) ==
    /\ Logged("table", answer)
    /\ tableCounter' = tableCounter + 1
    /\ LET index == tableCounter
       IN  refsDoc' = insertContent(refsDoc, atStart,
               Piece("table-caption", index,
                   safeText(answer, <<"Tabela ", ToString(index)>>)))
    /\ UNCHANGED <<footnoteCounter, endnoteCounter, figureCounter>>
    /\ RefsStep

InitRefs ==
    /\ hasWindow = TRUE
    /\ dataUri = DataPrefix
    /\ InitExtract
    /\ text = <<>>
    /\ InitText
    /\ ViewsIdle

NextRefs ==
    \E answer \in PromptAnswers, atStart \in BOOLEAN :
        \/ insertFootnote(answer, atStart)
        \/ insertEndnote(answer, atStart)
        \/ insertFigureCaption(answer, atStart)
        \/ insertTableCaption(answer, atStart)

SpecRefs == InitRefs /\ [][NextRefs]_vars

(***************************************************************************)
(* exportEditorContent, in its version with PDF (MenuBar.tsx lines         *)
(* 520-577) and in the version of lib/exporters.ts (lines 8-27).           *)
(***************************************************************************)

\* Exports in one run.
MaxExports == 2

\* The formats a caller passes: those of ExportFormat and two others.
ExportFormats == {"html", "markdown", "pdf", "docx", ""}

ContainerError == "Container do editor não informado para exportação em PDF."

UnsupportedError(format) == "Formato de exportação não suportado: " \o format

\* An error thrown by html-to-image or pdf-lib.
LibraryError == "(library error)"

\* new Blob([...], { type }) saved under createFilename(extension), whose
\* time stamp is left out.
SavedFile(type, extension) ==
    [type |-> type, name |-> "almeida-editor-" \o "." \o extension]

ExportStep ==
    /\ UNCHANGED <<extractVars, textVars>>
    /\ OtherViewsUnchanged("export")

\* The export ends: the promise is fulfilled, or rejected with an error.
Finish(impl, format, container, message, files, rendered) ==
    /\ exportsDone' = Append(exportsDone,
           [impl |-> impl, format |-> format, container |-> container,
            error |-> message, saved |-> files, rendered |-> rendered])
    /\ savedFiles' = savedFiles \o files
    /\ exportPc' = "idle"
    /\ exporting' = NoExport

exportEditorContentNoContainerCheck(format, container) ==
    /\ exportPc = "idle"
    /\ Len(exportsDone) < MaxExports
    /\ IF format = "html"
       THEN /\ Finish("pdf", format, container, "",
                      <<SavedFile("text/html;charset=utf-8", "html")>>, 0)
            /\ UNCHANGED toPngCalls
       ELSE IF format = "markdown"
       THEN /\ Finish("pdf", format, container, "",
                      <<SavedFile("text/markdown;charset=utf-8", "md")>>, 0)
            /\ UNCHANGED toPngCalls
       ELSE IF format = "pdf"
       THEN /\ exportPc' = "toPng"
            /\ exporting' = [format |-> format, container |-> container]
            /\ toPngCalls' = toPngCalls + 1
            /\ UNCHANGED <<savedFiles, exportsDone>>
       ELSE /\ Finish("pdf", format, container, UnsupportedError(format),
                      <<>>, 0)
            /\ UNCHANGED toPngCalls
    /\ ExportStep

\* exportEditorContent of MenuBar.tsx up to its first await.
exportEditorContent(format, container) ==
    /\ exportPc = "idle"
    /\ Len(exportsDone) < MaxExports
    /\ IF format = "html"
       THEN /\ Finish("pdf", format, container, "",
                      <<SavedFile("text/html;charset=utf-8", "html")>>, 0)
            /\ UNCHANGED toPngCalls
       ELSE IF format = "markdown"
       THEN /\ Finish("pdf", format, container, "",
                      <<SavedFile("text/markdown;charset=utf-8", "md")>>, 0)
            /\ UNCHANGED toPngCalls
       ELSE IF format = "pdf" /\ ~container
       THEN /\ Finish("pdf", format, container, ContainerError, <<>>, 0)
            /\ UNCHANGED toPngCalls
       ELSE IF format = "pdf"
       THEN /\ exportPc' = "toPng"
            /\ exporting' = [format |-> format, container |-> container]
            /\ toPngCalls' = toPngCalls + 1
            /\ UNCHANGED <<savedFiles, exportsDone>>
       ELSE /\ Finish("pdf", format, container, UnsupportedError(format),
                      <<>>, 0)
            /\ UNCHANGED toPngCalls
    /\ ExportStep

\* toPng, PDFDocument.create, embedPng and save are awaited in turn; after
\* the last the file is saved.  A container that is null makes toPng fail.
AwaitResolved ==
    /\ exportPc # "idle"
    /\ exporting.container
    /\ IF exportPc = "save"
       THEN Finish("pdf", exporting.format, exporting.container, "",
                   <<SavedFile("application/pdf", "pdf")>>, 1)
       ELSE /\ exportPc' = CASE exportPc = "toPng" -> "create"
                             [] exportPc = "create" -> "embedPng"
                             [] exportPc = "embedPng" -> "save"
            /\ UNCHANGED <<exporting, savedFiles, exportsDone>>
    /\ UNCHANGED toPngCalls
    /\ ExportStep

AwaitRejected ==
    /\ exportPc # "idle"
    /\ Finish("pdf", exporting.format, exporting.container, LibraryError,
              <<>>, 1)
    /\ UNCHANGED toPngCalls
    /\ ExportStep

\* exportEditorContent of lib/exporters.ts, which has no PDF and takes no
\* container.
exportEditorContentOfLib(format) ==
    /\ exportPc = "idle"
    /\ Len(exportsDone) < MaxExports
    /\ IF format = "html"
       THEN Finish("lib", format, FALSE, "",
                   <<SavedFile("text/html;charset=utf-8", "html")>>, 0)
       ELSE IF format = "markdown"
       THEN Finish("lib", format, FALSE, "",
                   <<SavedFile("text/markdown;charset=utf-8", "md")>>, 0)
       ELSE Finish("lib", format, FALSE, UnsupportedError(format), <<>>, 0)
    /\ UNCHANGED toPngCalls
    /\ ExportStep

InitExport ==
    /\ hasWindow = TRUE
    /\ dataUri = DataPrefix
    /\ InitExtract
    /\ text = <<>>
    /\ InitText
    /\ ViewsIdle

NextExport ==
    \/ \E format \in ExportFormats, container \in BOOLEAN :
          exportEditorContent(format, container)
    \/ AwaitResolved
    \/ AwaitRejected
    \/ \E format \in ExportFormats : exportEditorContentOfLib(format)

SpecExport == InitExport /\ [][NextExport]_vars

(***************************************************************************)
(* Vocabulary of the properties.                                           *)
(***************************************************************************)
\* At least one page went through the loop body: textContent, lines,
\* sortedKeys and linesArray are those of page pageNumber - 1.
Processed == pageNumber > 1

Runs == 1..Len(textContent)

\* A run whose text has a character that is not whitespace.
HasText(item) ==
    item.hasStr /\ \E c \in 1..Len(item.str) : item.str[c] \notin Whitespace

IsTextRun(i) == HasText(textContent[i])

TextRuns == {i \in Runs : IsTextRun(i)}

RunX(i) == IF textContent[i].hasTransform THEN textContent[i].x ELSE 0

RunY4(i) == IF textContent[i].hasTransform THEN textContent[i].y4 ELSE 0

\* The integers nearest to y = y4 / 4: two of them when y is halfway.
Nearest(y4) == {n \in -4..4 : 4 * n - 2 <= y4 /\ y4 <= 4 * n + 2}

Abs(n) == IF n < 0 THEN -n ELSE n

HalfUp(y4) == CHOOSE n \in Nearest(y4) : \A m \in Nearest(y4) : m <= n

HalfAwayFromZero(y4) ==
    CHOOSE n \in Nearest(y4) : \A m \in Nearest(y4) : Abs(m) <= Abs(n)

HalfToEven(y4) ==
    CHOOSE n \in Nearest(y4) : Cardinality(Nearest(y4)) = 1 \/ n % 2 = 0

RoundedY(i) == HalfUp(RunY4(i))

\* Paragraph k of the page is made from the line group of sortedKeys[k].
Paragraphs == 1..Len(sortedKeys)

Group(k) == MapGet(lines, sortedKeys[k])

ParagraphsOf(i) ==
    {k \in Paragraphs : \E j \in 1..Len(Group(k)) : Group(k)[j].idx = i}

PlaceIn(k, i) == CHOOSE j \in 1..Len(Group(k)) : Group(k)[j].idx = i

RunText(i) == escapeHtml(normalizeWhitespace(textContent[i].str))

\* The paragraphs are the line groups: paragraph k is the texts of the runs of
\* group k, in the order of the group, with one space between two of them, and
\* every run with text is in one paragraph.
ParagraphsAreGroups ==
    /\ Len(linesArray) = Len(sortedKeys)
    /\ \A k \in Paragraphs :
          /\ MapHas(lines, sortedKeys[k])
          /\ linesArray[k] =
                Join([j \in 1..Len(Group(k)) |-> RunText(Group(k)[j].idx)], <<" ">>)
    /\ \A i \in TextRuns : Cardinality(ParagraphsOf(i)) = 1

PageOfLast == pageNumber - 1

PlaceholderSection(n) ==
    <<"<section data-page=\"", ToString(n), "\">\n  <p>",
      "<em>Página ", ToString(n), ": sem conteúdo textual legível.</em>",
      "</p>\n</section>">>

FallbackArticle ==
    <<"<article class=\"almeida-pdf-import\" data-origin=\"pdf\">\n",
      "<p>Não foi possível extrair texto deste PDF. Tente novamente com um arquivo que contenha texto pesquisável.</p>",
      "\n</article>">>

NoTextInDocument == \A p \in 1..Len(pdf) : \A i \in 1..Len(pdf[p]) : ~HasText(pdf[p][i])

(***************************************************************************)
(* C1: the paragraphs of a page are in descending order of line key: of    *)
(* two runs with text whose rounded y differ, the one with the larger      *)
(* rounded y is in an earlier paragraph, whatever the arrival order.       *)
(***************************************************************************)
C1_ParagraphsDescendByLineKey ==
    Processed =>
        /\ ParagraphsAreGroups
        /\ \A i, j \in TextRuns :
              RoundedY(i) > RoundedY(j) =>
                  \A a \in ParagraphsOf(i), b \in ParagraphsOf(j) : a < b

\* Two runs that arrived bottom line first ended up in two paragraphs.
C1_Witness ==
    /\ Processed
    /\ Len(linesArray) = 2
    /\ \E i, j \in TextRuns : i < j /\ RoundedY(i) < RoundedY(j)

(***************************************************************************)
(* C2: within a line group the texts are joined in ascending x with single *)
(* spaces: of two runs with text, the same rounded y and different x, the  *)
(* one with the smaller x comes first in their paragraph; B at x 10 and A  *)
(* at x 0 on one line give "A B".                                          *)
(***************************************************************************)
C2_RunsAscendByX ==
    Processed =>
        /\ ParagraphsAreGroups
        /\ \A i, j \in TextRuns :
              (RoundedY(i) = RoundedY(j) /\ RunX(i) < RunX(j)) =>
                  \E k \in Paragraphs :
                      /\ ParagraphsOf(i) = {k}
                      /\ ParagraphsOf(j) = {k}
                      /\ PlaceIn(k, i) < PlaceIn(k, j)
        /\ (textContent = <<Run(<<"B">>, 10, -8), Run(<<"A">>, 0, -8)>>
               => linesArray = << <<"A", " ", "B">> >>)

C2_Witness ==
    /\ Processed
    /\ textContent = <<Run(<<"B">>, 10, -8), Run(<<"A">>, 0, -8)>>
    /\ linesArray = << <<"A", " ", "B">> >>

(***************************************************************************)
(* C3: two runs with text are in the same paragraph exactly when their y   *)
(* round to the same line key, and a page has one paragraph per distinct   *)
(* line key.                                                               *)
(***************************************************************************)
C3_SameParagraphIffSameKey ==
    Processed =>
        /\ ParagraphsAreGroups
        /\ \A i, j \in TextRuns :
              (ParagraphsOf(i) = ParagraphsOf(j)) <=> (RoundedY(i) = RoundedY(j))
        /\ Len(linesArray) = Cardinality({RoundedY(i) : i \in TextRuns})

\* Two runs of different y that round to one key share the only paragraph.
C3_Witness ==
    /\ Processed
    /\ Len(linesArray) = 1
    /\ \E i, j \in TextRuns : RunY4(i) # RunY4(j) /\ RoundedY(i) = RoundedY(j)

(***************************************************************************)
(* C4: the text of the runs reaches the output escaped: each of the five   *)
(* reserved characters appears only as its entity, the entities are not    *)
(* escaped again, and no character of a run opens a tag or ends an         *)
(* attribute in a fragment or in the returned string.                      *)
(***************************************************************************)
Entity(c) ==
    CASE c = "&"  -> <<"&", "a", "m", "p", ";">>
      [] c = "<"  -> <<"&", "l", "t", ";">>
      [] c = ">"  -> <<"&", "g", "t", ";">>
      [] c = "\"" -> <<"&", "q", "u", "o", "t", ";">>
      [] c = "'"  -> <<"&", "#", "3", "9", ";">>
      [] OTHER    -> <<c>>

RECURSIVE EntitiesOf(_)
EntitiesOf(s) == IF s = <<>> THEN <<>> ELSE Entity(Head(s)) \o EntitiesOf(Tail(s))

EntityAt(s, p) ==
    \E c \in {"&", "<", ">", "\"", "'"} :
        /\ p + Len(Entity(c)) - 1 <= Len(s)
        /\ SubSeq(s, p, p + Len(Entity(c)) - 1) = Entity(c)

\* The one-character elements of s hold no reserved character but the
\* ampersand of an entity.
IsEscaped(s) ==
    \A p \in 1..Len(s) :
        /\ s[p] \notin {"<", ">", "\"", "'"}
        /\ s[p] = "&" => EntityAt(s, p)

C4_RunTextIsEscaped ==
    Processed =>
        /\ Len(linesArray) = Len(sortedKeys)
        /\ \A k \in 1..Len(linesArray) :
              linesArray[k] =
                Join([j \in 1..Len(Group(k)) |->
                        EntitiesOf(normalizeWhitespace(
                            textContent[Group(k)[j].idx].str))], <<" ">>)
        /\ \A f \in 1..Len(fragments) : IsEscaped(fragments[f])
        /\ pc = "done" => IsEscaped(result)

\* A run with the five reserved characters is in the returned string.
C4_Witness ==
    /\ pc = "done"
    /\ Processed
    /\ \E i \in TextRuns :
          {"&", "<", ">", "\"", "'"} \subseteq
              {textContent[i].str[c] : c \in 1..Len(textContent[i].str)}

(***************************************************************************)
(* C5, as stated: a document with no page, or whose pages have no run with *)
(* text, gives the fallback notice alone, without a section.               *)
(***************************************************************************)
C5_Original ==
    (pc = "done" /\ NoTextInDocument) => result = FallbackArticle

(***************************************************************************)
(* C5, amended: a document with no page gives the fallback notice alone; a *)
(* document with pages, none of which has a run with text, gives one       *)
(* placeholder section per page and no fallback notice.                    *)
(***************************************************************************)
C5_FallbackOnlyWithoutPages ==
    pc = "done" =>
        /\ Len(pdf) = 0 => result = FallbackArticle
        /\ (Len(pdf) > 0 /\ NoTextInDocument) =>
              /\ fragments = [p \in 1..Len(pdf) |-> PlaceholderSection(p)]
              /\ result = <<FallbackArticle[1]>>
                             \o Join(fragments, <<"\n">>) \o <<FallbackArticle[3]>>
              /\ \A t \in 1..Len(result) : result[t] # FallbackArticle[2]

\* Two pages, one of them with a whitespace-only run, and no run with text.
C5_Witness ==
    /\ pc = "done"
    /\ Len(pdf) = 2
    /\ NoTextInDocument
    /\ \E p \in 1..Len(pdf) : pdf[p] # <<>>

(***************************************************************************)
(* C6: runs without text are left out of the line groups, and a page       *)
(* without a run with text gives the placeholder section of its number,    *)
(* never a section without paragraph or with an empty paragraph.           *)
(***************************************************************************)
C6_PlaceholderForPageWithoutText ==
    Processed =>
        /\ \A k \in 1..Len(lines) : \A j \in 1..Len(lines[k].segs) :
              lines[k].segs[j].idx \in TextRuns
        /\ \A k \in 1..Len(linesArray) : linesArray[k] # <<>>
        /\ TextRuns = {} =>
              /\ linesArray = <<>>
              /\ fragments[PageOfLast] = PlaceholderSection(PageOfLast)
        /\ TextRuns # {} => linesArray # <<>>

\* A page whose only runs are whitespace-only.
C6_Witness ==
    /\ Processed
    /\ textContent # <<>>
    /\ \A i \in Runs : textContent[i].hasStr /\ ~IsTextRun(i)

(***************************************************************************)
(* C7: runs of one line group with equal x keep their arrival order.       *)
(***************************************************************************)
C7_EqualXKeepArrivalOrder ==
    Processed =>
        /\ ParagraphsAreGroups
        /\ \A i, j \in TextRuns :
              (i < j /\ RoundedY(i) = RoundedY(j) /\ RunX(i) = RunX(j)) =>
                  \E k \in Paragraphs :
                      /\ ParagraphsOf(i) = {k}
                      /\ ParagraphsOf(j) = {k}
                      /\ PlaceIn(k, i) < PlaceIn(k, j)

\* Two runs of different text at the same place.
C7_Witness ==
    /\ Processed
    /\ \E i, j \in TextRuns :
          /\ i < j
          /\ RoundedY(i) = RoundedY(j)
          /\ RunX(i) = RunX(j)
          /\ textContent[i].str # textContent[j].str

(***************************************************************************)
(* C8, as stated: the line key is y rounded to the nearest integer with a  *)
(* halfway y rounded away from zero (or to even), so that runs at -1.5 and *)
(* -2 share a line and runs at -1.5 and -1 do not.                         *)
(***************************************************************************)
KeyOf(i) == sortedKeys[CHOOSE k \in Paragraphs : k \in ParagraphsOf(i)]

C8_Original ==
    Processed =>
        /\ \A i \in TextRuns :
              KeyOf(i) \in {HalfAwayFromZero(RunY4(i)), HalfToEven(RunY4(i))}
        /\ \A i, j \in TextRuns :
              /\ (RunY4(i) = -6 /\ RunY4(j) = -8) => KeyOf(i) = KeyOf(j)
              /\ (RunY4(i) = -6 /\ RunY4(j) = -4) => KeyOf(i) # KeyOf(j)

(***************************************************************************)
(* C8, amended: the line key is y rounded to the nearest integer with a    *)
(* halfway y rounded toward plus infinity, for negative and positive y, so *)
(* that runs at -1.5 and -1 share a line and runs at -1.5 and -2 do not.   *)
(***************************************************************************)
C8_KeyRoundsHalfUp ==
    Processed =>
        /\ \A i \in TextRuns :
              /\ ParagraphsOf(i) # {}
              /\ KeyOf(i) = HalfUp(RunY4(i))
        /\ \A i, j \in TextRuns :
              /\ (RunY4(i) = -6 /\ RunY4(j) = -4) => KeyOf(i) = KeyOf(j)
              /\ (RunY4(i) = -6 /\ RunY4(j) = -8) => KeyOf(i) # KeyOf(j)

\* A run at y = -1.5 on a page with a run at y = -1.
C8_Witness ==
    /\ Processed
    /\ \E i, j \in TextRuns : RunY4(i) = -6 /\ RunY4(j) = -4

(***************************************************************************)
(* C9: normalizeWhitespace turns every maximal run of whitespace inside    *)
(* the text into one space and removes the runs at its two ends; applied   *)
(* to its own result it changes nothing.                                   *)
(***************************************************************************)
\* What character i of s leaves in the result: itself, or one space for the
\* first character of a run of whitespace that has text on both sides.
Leaves(s, i) ==
    IF s[i] \notin Whitespace THEN <<s[i]>>
    ELSE IF /\ i > 1
            /\ s[i - 1] \notin Whitespace
            /\ \E j \in (i + 1)..Len(s) : s[j] \notin Whitespace
         THEN <<" ">>
         ELSE <<>>

RECURSIVE LeavesUpTo(_, _)
LeavesUpTo(s, n) == IF n = 0 THEN <<>> ELSE LeavesUpTo(s, n - 1) \o Leaves(s, n)

C9_NormalizeCollapsesTrimsIdempotent ==
    /\ once # NotYet => once = LeavesUpTo(text, Len(text))
    /\ twice # NotYet => twice = once

\* A text with whitespace at both ends and a run of two inside, done twice.
C9_Witness ==
    /\ twice # NotYet
    /\ Len(text) = 4
    /\ text[1] \notin Whitespace
    /\ text[2] \in Whitespace
    /\ text[3] \in Whitespace
    /\ text[4] \notin Whitespace

(***************************************************************************)
(* C10: with an argument that does not start with "data:" the call is      *)
(* rejected with the error of the data URL check before the document is    *)
(* decoded: getDocument, getPage and getTextContent are never called and   *)
(* no fragment is made.                                                    *)
(***************************************************************************)
IsDataUri ==
    /\ Len(dataUri) >= 5
    /\ <<dataUri[1], dataUri[2], dataUri[3], dataUri[4], dataUri[5]>>
           = <<"d", "a", "t", "a", ":">>

C10_NotDataUriRejectedBeforeLoading ==
    ~IsDataUri =>
        /\ pc \in {"start", "import", "rejected"}
        /\ \A c \in 1..Len(calls) : calls[c].fn = "import"
        /\ fragments = <<>>
        /\ result = <<>>
        /\ (pc = "rejected" /\ hasWindow) =>
              error = "Somente data URLs são suportadas no momento."

\* The call was rejected after the import, the only call made.
C10_Witness ==
    /\ ~IsDataUri
    /\ hasWindow
    /\ pc = "rejected"
    /\ calls = <<Call("import", 0)>>

(***************************************************************************)
(* C11: the call is all or nothing. When getDocument, getPage or           *)
(* getTextContent fails, for any page, the call is rejected with the error *)
(* of the library and returns no markup, whatever pages were processed     *)
(* before; a returned string has one section for every page of the         *)
(* document.                                                               *)
(***************************************************************************)
CallsOf(fn) == {c \in 1..Len(calls) : calls[c].fn = fn}

SectionHead(n) == <<"<section data-page=\"", ToString(n), "\">\n  <p>">>

IsSectionOf(fragment, n) ==
    /\ Len(fragment) >= 4
    /\ SubSeq(fragment, 1, 3) = SectionHead(n)
    /\ fragment[Len(fragment)] = "</p>\n</section>"

\* The fragments joined by a line feed, by induction on their number.
RECURSIVE Joined(_)
Joined(frags) ==
    IF Len(frags) = 0 THEN <<>>
    ELSE IF Len(frags) = 1 THEN frags[1]
    ELSE Joined(SubSeq(frags, 1, Len(frags) - 1)) \o <<"\n">> \o frags[Len(frags)]

C11_AllOrNothing ==
    /\ pc = "rejected" =>
          /\ result = <<>>
          /\ CallsOf("getDocument") # {} =>
                error \in {"InvalidPDFException", "UnknownErrorException"}
    /\ pc # "done" => result = <<>>
    /\ (pc = "done" /\ Len(pdf) > 0) =>
          /\ Len(fragments) = Len(pdf)
          /\ \A p \in 1..Len(pdf) : IsSectionOf(fragments[p], p)
          /\ result = <<"<article class=\"almeida-pdf-import\" data-origin=\"pdf\">\n">>
                          \o Joined(fragments) \o <<"\n</article>">>

\* The second page failed after the first one was made into a fragment.
C11_Witness ==
    /\ pc = "rejected"
    /\ error = "InvalidPDFException"
    /\ pageNumber = 2
    /\ Len(fragments) = 1
    /\ calls[Len(calls)] = Call("getTextContent", 2)
    /\ result = <<>>

(***************************************************************************)
(* C15: without a window the call is rejected at once, with the error of   *)
(* the environment check: the library is not imported, the argument is not *)
(* validated, nothing is decoded.                                          *)
(***************************************************************************)
C15_NoWindowRejectedFirst ==
    ~hasWindow =>
        /\ pc \in {"start", "rejected"}
        /\ calls = <<>>
        /\ fragments = <<>>
        /\ result = <<>>
        /\ pc = "rejected" =>
              error = "Extração de PDF disponível apenas no ambiente do navegador."

\* Rejected without a window, with an argument the data URL check refuses.
C15_Witness ==
    /\ ~hasWindow
    /\ ~IsDataUri
    /\ pc = "rejected"
    /\ calls = <<>>

(***************************************************************************)
(* C17: there is one section per page, in ascending page number and        *)
(* labelled with it, and the section of a page is made of the runs of that *)
(* page alone: it has as many paragraphs as the page has rounded y with    *)
(* text, and as many "A" as the page has runs "A", whatever the other      *)
(* pages hold at the same rounded y.                                       *)
(***************************************************************************)
\* The sections made so far (the fallback notice is not a section).
Sections ==
    IF fragments = << <<"<p>Não foi possível extrair texto deste PDF. Tente novamente com um arquivo que contenha texto pesquisável.</p>">> >>
    THEN 0
    ELSE Len(fragments)

Occurrences(fragment, c) == Cardinality({i \in 1..Len(fragment) : fragment[i] = c})

TextRunsOfPage(p) == {i \in 1..Len(pdf[p]) : HasText(pdf[p][i])}

\* The y of a run, in quarters, and the integer nearest to it (ties go up).
Y4Of(item) == IF item.hasTransform THEN item.y4 ELSE 0

NearestUp(y4) == IF y4 % 4 >= 2 THEN (y4 \div 4) + 1 ELSE y4 \div 4

KeysOfPage(p) == {NearestUp(Y4Of(pdf[p][i])) : i \in TextRunsOfPage(p)}

\* A fragment of n paragraphs has n - 1 separators of paragraphs.
ParagraphsIn(fragment) ==
    IF Occurrences(fragment, "<em>Página ") > 0 THEN 0
    ELSE 1 + Occurrences(fragment, "</p>\n  <p>")

C17_OneSectionPerPageFromItsRuns ==
    /\ Sections <= Len(pdf)
    /\ pc = "done" => (Sections = Len(pdf) /\ result = HtmlOf(pdf))
    /\ \A p \in 1..Sections :
          /\ IsSectionOf(fragments[p], p)
          /\ Occurrences(fragments[p], "A")
                = Cardinality({i \in TextRunsOfPage(p) : pdf[p][i].str = <<"A">>})
          /\ ParagraphsIn(fragments[p]) = Cardinality(KeysOfPage(p))

\* Two pages with a run "A" each, at the same rounded y.
C17_Witness ==
    /\ pc = "done"
    /\ Len(pdf) = 2
    /\ \E i \in TextRunsOfPage(1) : \E j \in TextRunsOfPage(2) :
          NearestUp(Y4Of(pdf[1][i])) = NearestUp(Y4Of(pdf[2][j]))
    /\ Len(fragments) = 2

(***************************************************************************)
(* C20: the pages are processed one at a time, in ascending order: the     *)
(* requests are getPage(1), getTextContent(1), getPage(2), ... in this     *)
(* order, a request for page k + 1 is made only when the fragment of page  *)
(* k is appended, and at most one request is without its answer.           *)
(***************************************************************************)
\* The requests made to the document, in the order they were made.
PageCalls == SelectSeq(calls, LAMBDA c : c.fn \in {"getPage", "getTextContent"})

\* The requests that were answered: fulfilled or rejected.
Answered ==
    IF pc = "getPage" \/ pc = "getTextContent" THEN Len(PageCalls) - 1
    ELSE Len(PageCalls)

C20_OnePageAtATime ==
    /\ \A c \in 1..Len(PageCalls) :
          /\ PageCalls[c].page = (c + 1) \div 2
          /\ PageCalls[c].fn = IF c % 2 = 1 THEN "getPage" ELSE "getTextContent"
          /\ PageCalls[c].page <= Sections + 1
    /\ Len(PageCalls) - Answered \in {0, 1}
    /\ Len(PageCalls) \in {2 * Sections, 2 * Sections + 1, 2 * Sections + 2}
    /\ pc = "done" => Len(PageCalls) = 2 * Len(pdf)

\* The text of the second page is awaited, the fragment of the first is made.
C20_Witness ==
    /\ pc = "getTextContent"
    /\ pageNumber = 2
    /\ Len(fragments) = 1
    /\ PageCalls = <<Call("getPage", 1), Call("getTextContent", 1),
                     Call("getPage", 2), Call("getTextContent", 2)>>

(***************************************************************************)
(* C16: ensurePdfWorkerConfigured is a check-then-set. workerSrc is        *)
(* assigned only when it differs from the resolved URL of the worker: with *)
(* a window, after the first call workerSrc is the resolved URL and at     *)
(* most one assignment was ever made, whatever the number of calls from    *)
(* the loaders of Document and Page; without a window nothing is assigned. *)
(***************************************************************************)
EnsureCallsMade == ensureCalls.Document + ensureCalls.Page

WorkerUrl == origin \o "/pdf.worker.mjs"

C16_WorkerSrcSetOnce ==
    /\ \A w \in 1..Len(workerWrites) :
          /\ workerWrites[w].old # workerWrites[w].new
          /\ workerWrites[w].new = WorkerUrl
    /\ Len(workerWrites) <= 1
    /\ (hasWindow /\ EnsureCallsMade >= 1) => workerSrc = WorkerUrl
    /\ ~hasWindow => (workerWrites = <<>> /\ workerSrc \in {"", "pdf.worker.mjs"})

\* Both loaders ran, three calls in all, and one assignment was made.
C16_Witness ==
    /\ hasWindow
    /\ ensureCalls.Document >= 1
    /\ ensureCalls.Page >= 2
    /\ Len(workerWrites) = 1
    /\ workerSrc = WorkerUrl

(***************************************************************************)
(* C19: the buttons of the ribbon mirror the editor. While the Ribbon is   *)
(* mounted, after its mount and after every event of the editor, each of   *)
(* the 13 flags of activeState is what isActive answers for its format;    *)
(* after unmount no handler is registered and activeState changes no more. *)
(***************************************************************************)
Mirrors ==
    /\ activeState.bold = ("bold" \in editorState.active)
    /\ activeState.italic = ("italic" \in editorState.active)
    /\ activeState.underline = ("underline" \in editorState.active)
    /\ activeState.strike = ("strike" \in editorState.active)
    /\ activeState.bulletList = ("bulletList" \in editorState.active)
    /\ activeState.orderedList = ("orderedList" \in editorState.active)
    /\ activeState.alignLeft = (editorState.textAlign = "left")
    /\ activeState.alignCenter = (editorState.textAlign = "center")
    /\ activeState.alignRight = (editorState.textAlign = "right")
    /\ activeState.alignJustify = (editorState.textAlign = "justify")
    /\ activeState.blockquote = ("blockquote" \in editorState.active)
    /\ activeState.link = ("link" \in editorState.active)
    /\ activeState.table = ("table" \in editorState.active)

C19_RibbonMirrorsEditor ==
    /\ [](ribbonMounted => Mirrors)
    /\ [](~ribbonMounted => handlers = {})
    /\ [][(~ribbonMounted /\ ~ribbonMounted') => activeState' = activeState]_vars

\* Mounted, after events that made the text bold and justified.
C19_Witness ==
    /\ ribbonMounted
    /\ editorEvents >= 2
    /\ editorState.active = {"bold"}
    /\ editorState.textAlign = "justify"
    /\ activeState.bold
    /\ activeState.alignJustify
    /\ ~activeState.alignLeft

(***************************************************************************)
(* C18: in the autosaving editor every update saves the document under     *)
(* the draft key and the stored draft is loaded without a save of its own; *)
(* so, once the updates have stopped and every request is served, a stored *)
(* draft is the document the editor shows, also when the user edited       *)
(* before the draft was loaded.                                            *)
(***************************************************************************)
DraftSettled == draftContent # <<"(null)">> /\ idbQueue = <<>>

C18_StoredDraftIsShown ==
    (DraftSettled /\ draftStore # <<"(undefined)">>) => draftStore = draftContent

(***************************************************************************)
(* Vocabulary of the handoff.                                              *)
(***************************************************************************)
Ids(log) == {log[i] : i \in 1..Len(log)}

Fulfilled == {i \in 1..Len(settled) : settled[i].ok}

Rejected == {i \in 1..Len(settled) : ~settled[i].ok}

\* A conversion settles in this step, and how.
Settles(ok) ==
    /\ Len(settled') = Len(settled) + 1
    /\ settled'[Len(settled')].ok = ok

\* The markup of the two files: a page with the text A, a page without text.
HtmlOfFile(uri) ==
    IF uri = <<"d", "a", "t", "a", ":", "1">>
    THEN <<"<article class=\"almeida-pdf-import\" data-origin=\"pdf\">\n",
           "<section data-page=\"", "1", "\">\n  <p>", "A", "</p>\n</section>",
           "\n</article>">>
    ELSE <<"<article class=\"almeida-pdf-import\" data-origin=\"pdf\">\n",
           "<section data-page=\"", "1", "\">\n  <p>",
           "<em>Página ", "1", ": sem conteúdo textual legível.</em>",
           "</p>\n</section>", "\n</article>">>

\* The call that settles in this step.
SettlingCall == CHOOSE c \in inFlight : c \notin inFlight'

(***************************************************************************)
(* C12: when the call of extractPdfToHtml made by handleConvertToWord is   *)
(* rejected, the error notice is shown and nothing is handed over: the     *)
(* storage key, the events dispatched, the hash and the view shown, and    *)
(* the content of the Word editor are what they were; a rejected           *)
(* conversion is never dispatched, stored or set as the content.           *)
(***************************************************************************)
C12_FailedConversionHandsNothingOver ==
    /\ [](\A i \in Rejected :
             /\ settled[i].id \notin Ids(dispatched)
             /\ settled[i].id \notin Ids(applied)
             /\ importKey.id # settled[i].id)
    /\ [][Settles(FALSE) =>
             /\ notice' = "Não foi possível converter este PDF."
             /\ importKey' = importKey
             /\ dispatched' = dispatched
             /\ hash' = hash
             /\ hashChanged' = hashChanged
             /\ activeTab' = activeTab
             /\ wordEditor' = wordEditor
             /\ wordContent' = wordContent
             /\ applied' = applied]_vars

\* The first conversion was rejected while the Word editor was shown with
\* its own content: the notice is up, nothing was stored or dispatched.
C12_Witness ==
    /\ Len(settled) = 1
    /\ ~settled[1].ok
    /\ notice = "Não foi possível converter este PDF."
    /\ wordEditor = "ready"
    /\ wordContent = wordStarterContent
    /\ importKey = NoItem
    /\ dispatched = <<>>
    /\ hash = "word"

(***************************************************************************)
(* C13, as stated: after a successful conversion the HTML is stored under  *)
(* the key and announced by the event, and the Word view sets its content  *)
(* to it, by the listener or from the key: so the HTML of every fulfilled  *)
(* conversion either was set as the content, by this conversion or by one  *)
(* of the same file, or still waits under the key.                         *)
(***************************************************************************)
UriOf(id) == (CHOOSE s \in {settled[i] : i \in 1..Len(settled)} : s.id = id).uri

C13_Original ==
    \A i \in Fulfilled :
        \/ \E id \in Ids(applied) : UriOf(id) = settled[i].uri
        \/ importKey.html = HtmlOfFile(settled[i].uri)

(***************************************************************************)
(* C13, amended: the key holds one value.  A fulfilled conversion stores   *)
(* its HTML under the key and dispatches the event; a listening Word view  *)
(* sets its content to that HTML in the same step, otherwise the HTML      *)
(* waits under the key, where only the HTML of a later fulfilled           *)
(* conversion can replace it.  Whatever is under the key is set as the     *)
(* content when the editor of the Word view gets ready, nothing waits      *)
(* under the key while the view listens, and a Word view that stays        *)
(* mounted gets ready; after a conversion a waiting hashchange shows the   *)
(* Word view.                                                              *)
(***************************************************************************)
C13_LatestConversionReachesEditor ==
    /\ [](\A i \in Fulfilled :
             \/ settled[i].id \in Ids(applied)
             \/ importKey.id = settled[i].id
             \/ \E j \in Fulfilled : j > i)
    /\ [](wordEditor = "ready" => importKey = NoItem)
    /\ [][Settles(TRUE) =>
             /\ dispatched' = Append(dispatched, SettlingCall.id)
             /\ hash' = "word"
             /\ IF wordEditor = "ready"
                THEN /\ wordContent' = HtmlOfFile(SettlingCall.uri)
                     /\ applied' = Append(applied, SettlingCall.id)
                     /\ importKey' = NoItem
                ELSE /\ importKey' = [html |-> HtmlOfFile(SettlingCall.uri),
                                      id |-> SettlingCall.id]
                     /\ applied' = applied]_vars
    /\ [][(wordEditor = "loading" /\ wordEditor' = "ready" /\ importKey # NoItem) =>
             /\ wordContent' = importKey.html
             /\ applied' = Append(applied, importKey.id)
             /\ importKey' = NoItem]_vars
    /\ (importKey # NoItem /\ wordEditor = "loading")
          ~> (importKey = NoItem \/ wordEditor = "unmounted")
    /\ (hashChanged /\ hash = "word") ~> (activeTab = "word")

\* The Word view was not mounted when the conversion was fulfilled; it was
\* shown by the hashchange and took the HTML from the key.
C13_Witness ==
    /\ Len(settled) = 1
    /\ settled[1].ok
    /\ dispatched = <<1>>
    /\ applied = <<1>>
    /\ importKey = NoItem
    /\ activeTab = "word"
    /\ wordEditor = "ready"
    /\ wordContent = HtmlOfFile(<<"d", "a", "t", "a", ":", "1">>)
    /\ ~hashChanged
    /\ notice = "Conteúdo importado do PDF."
    /\ conversions = 1
    /\ inFlight = {}

(***************************************************************************)
(* C14: the import is transient.  The key is removed whenever its HTML is  *)
(* consumed, by the listener of the event or by the read at mount: what is *)
(* under the key was not yet set as the content, and no conversion is set  *)
(* as the content twice, whatever the order of conversions, events and     *)
(* mounts of the Word view.                                                *)
(***************************************************************************)
C14_ImportAppliedAtMostOnce ==
    /\ \A i, j \in 1..Len(applied) : applied[i] = applied[j] => i = j
    /\ importKey # NoItem => importKey.id \notin Ids(applied)
    /\ Ids(applied) \subseteq Ids(dispatched)

\* A conversion was taken by the listener; the Word view was then
\* unmounted and mounted again, and shows the document of a new editor.
C14_Witness ==
    /\ applied = <<1>>
    /\ dispatched = <<1>>
    /\ wordEditor = "ready"
    /\ wordContent = wordStarterContent
    /\ notice = "PDF convertido e enviado para o editor Word."
    /\ importKey = NoItem

(***************************************************************************)
(* C21: every paragraph made for a line group is not empty and has its     *)
(* whitespace normalized: it neither starts nor ends with whitespace and   *)
(* has no two whitespace characters in a row.  A page has as many          *)
(* paragraphs as its runs with text have distinct line keys: runs without  *)
(* text make no paragraph.                                                 *)
(***************************************************************************)
IsSpace(c) == c \in {" ", "\t", "\n"}

WhitespaceNormalized(p) ==
    /\ Len(p) > 0
    /\ ~IsSpace(p[1])
    /\ ~IsSpace(p[Len(p)])
    /\ \A c \in 1..(Len(p) - 1) : ~(IsSpace(p[c]) /\ IsSpace(p[c + 1]))

C21_ParagraphsNormalizedOnePerKey ==
    Processed =>
        /\ \A k \in 1..Len(linesArray) : WhitespaceNormalized(linesArray[k])
        /\ Len(linesArray) = Cardinality({NearestUp(Y4Of(textContent[i])) : i \in TextRuns})

\* A run of whitespace alone and a run with whitespace inside and around
\* its text: one paragraph, with one space where the run had two characters.
C21_Witness ==
    /\ Processed
    /\ \E i \in Runs : textContent[i].hasStr /\ textContent[i].str = <<" ", "\t">>
    /\ \E i \in Runs :
          /\ i \in TextRuns
          /\ \E c \in 1..(Len(textContent[i].str) - 1) :
                IsSpace(textContent[i].str[c]) /\ IsSpace(textContent[i].str[c + 1])
    /\ Len(linesArray) = 1
    /\ \E c \in 1..Len(linesArray[1]) : linesArray[1][c] = " "

(***************************************************************************)
(* Vocabulary of the viewer.                                               *)
(***************************************************************************)

InRange == ~LessThan(scale, MinScale) /\ ~LessThan(MaxScale, scale)

\* d is 0.1 up to 2^-50, d being the exact difference of two doubles
NearTenth(d) ==
    /\ d.hi - Tenth.hi \in {-1, 0, 1}
    /\ (d.hi - Tenth.hi) * Limb + d.lo - Tenth.lo \in (-(2^5))..(2^5)

\* The original reading of C22: a step that does not start at its bound
\* gives the double scale + 0.1, or scale - 0.1.
C22_Original ==
    /\ []InRange
    /\ [][/\ increaseScale /\ scale = MaxScale => scale' = scale
          /\ decreaseScale /\ scale = MinScale => scale' = scale
          /\ increaseScale /\ scale # MaxScale
                => scale' = DoubleAdd(scale, Tenth)
          /\ decreaseScale /\ scale # MinScale
                => scale' = DoubleSubtract(scale, Tenth)
          /\ resetViewer \/ readerOnLoad => scale' = scale]_vars

\* C22: the zoom scale stays within [0.6, 2.0] under the zoom buttons from
\* 1.2 on: a step at its bound leaves the scale as it is; every other step
\* moves it in its direction to the double scale + 0.1 (or scale - 0.1), cut
\* off at the bound, which is a change of 0.1 up to 2^-50; resetViewer and
\* the load of a file leave it as it is.
C22_ScaleStaysInRange ==
    /\ []InRange
    /\ [][/\ increaseScale /\ scale = MaxScale => scale' = scale
          /\ decreaseScale /\ scale = MinScale => scale' = scale
          /\ increaseScale /\ scale # MaxScale
                => /\ LessThan(scale, scale')
                   /\ scale' \in {DoubleAdd(scale, Tenth), MaxScale}
                   /\ NearTenth(ExactDifference(scale', scale))
          /\ decreaseScale /\ scale # MinScale
                => /\ LessThan(scale', scale)
                   /\ scale' \in {DoubleSubtract(scale, Tenth), MinScale}
                   /\ NearTenth(ExactDifference(scale, scale'))
          /\ resetViewer \/ readerOnLoad => scale' = scale]_vars

\* The scale was raised to its upper bound and the file was cleared after.
C22_Witness ==
    /\ scale = MaxScale
    /\ viewerFile = NoFile
    /\ viewerNotice = LoadedNotice

FieldsNeedFile == (isEditingFields \/ textFields # <<>>) => viewerFile # NoFile

\* C23: edit mode and text fields exist only while a PDF is loaded; the
\* toggle of edit mode without a file changes no state of the viewer (it
\* shows a notice), and a file load and resetViewer both leave edit mode
\* off with no fields.
C23_FieldsOnlyWithFile ==
    /\ []FieldsNeedFile
    /\ [][/\ handleToggleEditFields /\ viewerFile = NoFile
                => UNCHANGED <<scale, viewerFile, fileReads, numPages,
                               isEditingFields, textFields, activeFieldId,
                               fieldsCreated>>
          /\ readerOnLoad \/ resetViewer
                => ~isEditingFields' /\ textFields' = <<>>]_vars

\* Fields were made, the viewer was reset, and edit mode was asked for
\* without a file.
C23_Witness ==
    /\ viewerFile = NoFile
    /\ fieldsCreated > 0
    /\ viewerNotice = NeedsFileNotice
    /\ ~isEditingFields
    /\ textFields = <<>>

ActiveFieldExists ==
    /\ activeFieldId # NoFieldId
          => \E i \in 1..Len(textFields) : textFields[i].id = activeFieldId
    /\ activeFieldId # NoFieldId => isEditingFields

\* C24: activeFieldId is null or the id of a field in textFields and is
\* non-null only in edit mode; a step that removes the active field or
\* leaves edit mode sets it to null.
C24_ActiveFieldIsAField ==
    /\ []ActiveFieldExists
    /\ [][/\ (/\ activeFieldId # NoFieldId
              /\ \A i \in 1..Len(textFields') :
                    textFields'[i].id # activeFieldId)
                => activeFieldId' = NoFieldId
          /\ isEditingFields /\ ~isEditingFields'
                => activeFieldId' = NoFieldId]_vars

\* In edit mode, of two fields made the one with text is left, and the
\* other, active when it was made, is gone.
C24_Witness ==
    /\ isEditingFields
    /\ fieldsCreated = 2
    /\ Len(textFields) = 1
    /\ textFields[1].text = "a"
    /\ textFields[1].id = "field-1"
    /\ activeFieldId = NoFieldId

\* C25: a correction that arrives replaces exactly the text that was
\* selected and sent when the spellcheck started, whatever happened to the
\* document and the selection meanwhile, and isSpellchecking is true exactly
\* while a request is awaited.
C25_CorrectionReplacesWhatWasSent ==
    /\ \A i \in 1..Len(spellApplied) :
          spellApplied[i].replaced = spellApplied[i].sent
    /\ isSpellchecking <=> spellRequest # NoRequest

(***************************************************************************)
(* Vocabulary of the spellcheck route.                                     *)
(***************************************************************************)

\* The text of a request is missing or has nothing but whitespace.
NoTextIn(body) ==
    /\ body.json = "object"
    /\ \/ body.type \in {"undefined", "null"}
       \/ body.type = "string" /\ \A c \in 1..Len(body.str) : IsSpace(body.str[c])

\* Something threw: the body is no JSON object, the text is no string, the
\* fetch failed, or Ollama's response could not be read as expected.
Threw(e) ==
    \/ e.body.json # "object"
    \/ e.body.type = "number"
    \/ e.answer.kind \in {"rejected", "notOkUnreadable", "invalidJson",
                          "null", "number"}

\* Ollama's content is missing or empty once trimmed.
NoContentIn(answer) ==
    \/ answer.kind \in {"noMessage", "noContent"}
    \/ answer.kind = "string" /\ \A c \in 1..Len(answer.str) : IsSpace(answer.str[c])

\* The requests for which Ollama was called.
OllamaAsked == {i \in 1..Len(served) : served[i].answer # NotCalled}

Titles(doc) ==
    LET at == {i \in 1..Len(doc) :
                  doc[i].kind = "heading" /\ doc[i].text \notin {"", " "}}
        RECURSIVE InOrder(_)
        InOrder(S) ==
            IF S = {} THEN <<>>
            ELSE LET i == CHOOSE m \in S : \A n \in S : m <= n
                 IN  <<doc[i].text>> \o InOrder(S \ {i})
    IN  InOrder(at)

\* One generated block at the start, listing the headings of the rest.
StartsWithTocOfTheRest(doc) ==
    /\ Len(doc) >= 2
    /\ doc[1].kind = "heading" /\ doc[1].text = "Sumário"
    /\ doc[2].kind = "bulletList"
    /\ doc[2].items = Titles(SubSeq(doc, 3, Len(doc)))
    /\ \A i \in 3..Len(doc) :
          doc[i].kind # "bulletList" /\ doc[i].text # "Sumário"

\* C27: a call of buildTableOfContents on a document with headings leaves
\* exactly one generated block, at the start, whose entries are the
\* non-empty headings of the rest of the document in order; a second call
\* in a row changes nothing; without headings the document stays as it is.
C27_OneTocOfTheHeadings ==
    [][tocRuns' = tocRuns + 1
          => /\ Titles(tocDoc) = <<>> => tocDoc' = tocDoc
             /\ Titles(tocDoc) # <<>> => StartsWithTocOfTheRest(tocDoc')
             /\ tocRuns >= 1 => tocDoc' = tocDoc]_vars

(***************************************************************************)
(* Vocabulary of the notes and captions.                                   *)
(***************************************************************************)

\* The calls of one kind among the first k insertions.
CallsOfKind(kind, k) == {i \in 1..k : refsLog[i].kind = kind}

\* The pieces of a class that show an index.
PiecesOf(class, index) ==
    {j \in 1..Len(refsDoc) :
        refsDoc[j].class = class /\ refsDoc[j].index = index}

\* The classes of the pieces an insertion of each kind makes, and the
\* default text of each kind.
ClassesOf(kind) ==
    CASE kind = "footnote" -> {"footnote-ref", "footnote-item"}
      [] kind = "endnote" -> {"endnote-ref", "endnote-item"}
      [] kind = "figure" -> {"figure-caption"}
      [] kind = "table" -> {"table-caption"}

TextClassOf(kind) ==
    CASE kind = "footnote" -> "footnote-item"
      [] kind = "endnote" -> "endnote-item"
      [] kind = "figure" -> "figure-caption"
      [] kind = "table" -> "table-caption"

DefaultOf(kind, n) ==
    CASE kind = "footnote" -> <<"Nota ", ToString(n)>>
      [] kind = "endnote" -> <<"Nota de fim ", ToString(n)>>
      [] kind = "figure" -> <<"Figura ", ToString(n)>>
      [] kind = "table" -> <<"Tabela ", ToString(n)>>

NoTextTyped(answer) ==
    answer = <<"(null)">> \/ \A c \in 1..Len(answer) : IsSpace(answer[c])

\* C28: each of the four counters is one more than the insertions of its
\* kind; the n-th insertion of a kind shows index n in every piece it
\* makes, once; and an insertion whose prompt was cancelled or left blank
\* has its index and the default text.
C28_CountersIndependent ==
    /\ footnoteCounter = 1 + Cardinality(CallsOfKind("footnote", Len(refsLog)))
    /\ endnoteCounter = 1 + Cardinality(CallsOfKind("endnote", Len(refsLog)))
    /\ figureCounter = 1 + Cardinality(CallsOfKind("figure", Len(refsLog)))
    /\ tableCounter = 1 + Cardinality(CallsOfKind("table", Len(refsLog)))
    /\ \A i \in 1..Len(refsLog) :
        LET kind == refsLog[i].kind
            n == Cardinality(CallsOfKind(kind, i))
        IN  /\ \A class \in ClassesOf(kind) :
                  Cardinality(PiecesOf(class, n)) = 1
            /\ NoTextTyped(refsLog[i].answer)
                  => \A j \in PiecesOf(TextClassOf(kind), n) :
                        refsDoc[j].text = DefaultOf(kind, n)
    /\ \A j \in 1..Len(refsDoc) :
          \E i \in 1..Len(refsLog) :
              /\ refsDoc[j].class \in ClassesOf(refsLog[i].kind)
              /\ refsDoc[j].index = Cardinality(CallsOfKind(refsLog[i].kind, i))

\* A second footnote with a cancelled prompt after an endnote and a first
\* footnote: it shows index 2 and the default text.
C28_Witness ==
    /\ Len(refsLog) = 3
    /\ refsLog[1].kind = "endnote"
    /\ refsLog[2].kind = "footnote"
    /\ refsLog[3] = [kind |-> "footnote", answer |-> Cancelled]
    /\ footnoteCounter = 3
    /\ endnoteCounter = 2
    /\ refsDoc[Len(refsDoc)] = Piece("footnote-item", 2, <<"Nota ", "2">>)

(***************************************************************************)
(* Vocabulary of the export.                                               *)
(***************************************************************************)

\* The extension of the one file an export of a format saves.
ExtensionOf(format) ==
    CASE format = "html" -> ".html"
      [] format = "markdown" -> ".md"
      [] format = "pdf" -> ".pdf"

RECURSIVE AllSaved(_)
AllSaved(done) ==
    IF done = <<>> THEN <<>> ELSE Head(done).saved \o AllSaved(Tail(done))

\* C29: an export that returns has saved exactly one file, of its format,
\* and one that throws has saved none; html and markdown always return;
\* pdf without a container throws with nothing rendered; any other format
\* throws the unsupported-format error; and no file is saved but by an
\* export that returned.
C29_OneFileOrAnError ==
    /\ savedFiles = AllSaved(exportsDone)
    /\ \A i \in 1..Len(exportsDone) :
        LET e == exportsDone[i]
        IN  /\ e.error = ""
                  => /\ Len(e.saved) = 1
                     /\ e.format \in {"html", "markdown", "pdf"}
                     /\ e.saved[1].name
                           = "almeida-editor-" \o ExtensionOf(e.format)
            /\ e.error # "" => e.saved = <<>>
            /\ e.format \in {"html", "markdown"} => e.error = ""
            /\ e.format = "pdf" /\ ~e.container
                  => e.error # "" /\ e.rendered = 0
            /\ e.format \notin {"html", "markdown", "pdf"}
                  => e.error = "Formato de exportação não suportado: "
                                   \o e.format
    /\ toPngCalls = Cardinality({i \in 1..Len(exportsDone) :
                                    exportsDone[i].rendered = 1})
                        + (IF exportPc = "idle" THEN 0 ELSE 1)

\* A PDF was exported from a container, and an export to PDF without one
\* threw.
C29_Witness ==
    /\ Len(exportsDone) = 2
    /\ exportsDone[1].format = "pdf" /\ exportsDone[1].error = ""
    /\ exportsDone[2].format = "pdf" /\ ~exportsDone[2].container
    /\ exportsDone[2].impl = "pdf"
    /\ Len(savedFiles) = 1
    /\ toPngCalls = 1

\* activeTab is one of the two tabs, and equals the hash when the hash names
\* a tab and no hashchange waits for the listener.
TabFollowsHash ==
    /\ activeTab \in {"word", "pdf"}
    /\ (hash \in {"word", "pdf"} /\ ~hashChanged) => activeTab = hash

\* C30: activeTab is always "word" or "pdf"; the listener leaves it as it
\* is for a hash that names no tab, and so does the change of the hash
\* itself; handleTabChange shows "pdf" for "pdf" and "word" for any other
\* value and sets the hash to the same; and with no hashchange waiting,
\* activeTab equals a hash that names a tab.
C30_TabFollowsHash ==
    /\ []TabFollowsHash
    /\ [][/\ applyHash /\ hash \notin {"word", "pdf"}
                => activeTab' = activeTab
          /\ hash' # hash /\ ~(\E value \in {"word", "pdf", "roadmap"} :
                                  handleTabChange(value))
                => activeTab' = activeTab
          /\ \A value \in {"word", "pdf", "roadmap"} :
                handleTabChange(value)
                    => /\ activeTab' = IF value = "pdf" THEN "pdf" ELSE "word"
                       /\ hash' = activeTab']_vars

\* The hash "word" set by a conversion has shown the Word view, whose
\* editor is not ready yet and whose import waits under the key.
C30_Witness ==
    /\ activeTab = "word"
    /\ hash = "word"
    /\ ~hashChanged
    /\ wordEditor = "loading"
    /\ importKey # NoItem
    /\ notice = "PDF convertido e enviado para o editor Word."

====
